---- MODULE Spec2Model ----
(***************************************************************************)
(* A model of the GalaSwap trading bot's risk engine (RiskManager), its    *)
(* portfolio coordinator (PortfolioManager behind DiversifiedTradingBot)   *)
(* and the strategy units' evaluation ticks (BaseTradingStrategy and its   *)
(* subclasses).                                                            *)
(*                                                                         *)
(* Units of measure: money is counted in units of 100 (maxTotalExposure    *)
(* 10000 is 100, a momentum position of 300 is 3); fractions are counted   *)
(* in percent (maxDrawdown 0.15 is 15).  Real-valued scores are kept as    *)
(* exact rationals [n, d] with d > 0.                                      *)
(*                                                                         *)
(* A unit's execute() is stepped as TradingBot.startStrategyLoops calls    *)
(* it, one call in flight per unit, and split at its gateway awaits; the   *)
(* coordinator's handlers await nothing that yields and are single steps,  *)
(* except start(), which yields in GridStrategy.initialize.  Every         *)
(* position a unit opens is created on the current day.                    *)
(***************************************************************************)
EXTENDS Integers, Sequences, FiniteSets, TLC

\* ------------------------------------------------------------- bounds
\* longest position snapshot handed to updatePortfolioMetrics by a caller
MaxSnapshot == 2
\* most positions a strategy unit holds (createPosition itself has no cap)
MaxPositions == 1
\* most completed PortfolioManager.start() calls (each adds two timers)
MaxStarts == 2
\* most admitted value remembered since the last metrics or limits update
MaxAdmitted == 4
\* most execute() calls of the scalping unit in flight at once
MaxCalls == 2
\* most trades the scalping unit executes
MaxTrades == 2
\* most clock hours that pass
MaxHours == 1
\* most trades recorded within one 5-minute window
MaxHistory == 22

\* ------------------------------------------------------------- rationals
Abs(x) == IF x < 0 THEN -x ELSE x

Rat(n, d) == IF d < 0 THEN [n |-> -n, d |-> -d] ELSE [n |-> n, d |-> d]

RAdd(a, b) == [n |-> a.n * b.d + b.n * a.d, d |-> a.d * b.d]

RAbs(a) == [n |-> Abs(a.n), d |-> a.d]

RInt(k) == [n |-> k, d |-> 1]

\* a < k and a > k for an integer k
RLessInt(a, k) == a.n < k * a.d

RGreaterInt(a, k) == a.n > k * a.d

RMin(a, b) == IF a.n * b.d <= b.n * a.d THEN a ELSE b

RECURSIVE GCD(_, _)
GCD(a, b) == IF b = 0 THEN a ELSE GCD(b, a % b)

\* n / d in lowest terms, for n >= 0 and d > 0
RDiv(n, d) == [n |-> n \div GCD(n, d), d |-> d \div GCD(n, d)]

RECURSIVE SumSeq(_)
SumSeq(s) == IF s = << >> THEN 0 ELSE Head(s) + SumSeq(Tail(s))

\* reduce((sum, x) => sum + F(x), 0) over a sequence
SumOver(s, F(_)) == SumSeq([i \in 1..Len(s) |-> F(s[i])])

\* ------------------------------------------------------------- variables
VARIABLES
    \* RiskManager
    riskLimits,          \* RiskManager.riskLimits
    portfolioMetrics,    \* RiskManager.portfolioMetrics
    rmPositions,         \* RiskManager.positions: the entries of the last snapshot
                         \* supplied, as the tokens the engine reads from them
    maxPortfolioValue,   \* RiskManager.maxPortfolioValue (high-water mark)
    riskViolations,      \* the violations listed in the SecurityEvent the last step
                         \* recorded from checkRiskLimits, if it recorded one
    lastCheck,           \* history: the engine call a caller made last, with its
                         \* input and, for checkPositionRisk, its result
    admittedSince,       \* history: value admitted since the last metrics/limits update
    \* strategy units
    enabled,             \* BaseTradingStrategy.enabled, per unit
    isRunning,           \* BaseTradingStrategy.isRunning, per unit
    positions,           \* BaseTradingStrategy.positions, per unit, in creation order
    tick,                \* the unit's execute() call in flight, if any
    parameters,          \* BaseTradingStrategy.parameters, per unit: maxPositionSize
    scalping,            \* ScalpingStrategy's own fields and its execute() calls in flight
    clock,               \* the clock hour, and (history) the trades the scalping
                         \* unit executed within it
    \* MonitoringSystem
    tradeHistory,        \* MonitoringSystem.tradeHistory: the age of every trade
                         \* recorded within the last 5 minutes, in half windows
    securityEventHistory, \* MonitoringSystem.securityEventHistory: the events
                         \* recorded within the last hour, oldest first
    \* ErrorHandler
    errorCounts,         \* ErrorHandler.errorCounts, per error key
    circuitBreakers,     \* ErrorHandler.circuitBreakers, per error key
    \* SecurityManager
    rateLimitMap,        \* SecurityManager.rateLimitMap, per identifier
    thrown,              \* the error the last call into the monitoring system, the
                         \* error handler or the security manager ended with, or none
    \* PortfolioManager and DiversifiedTradingBot
    allocations,         \* PortfolioManager.allocations
    pmRunning,           \* PortfolioManager.isRunning
    totalPortfolioValue, \* PortfolioManager.totalPortfolioValue
    botRunning,          \* DiversifiedTradingBot.isRunning
    startPc,             \* where a PortfolioManager.start() call in flight stands
    timers,              \* monitoring/emergency timer pairs created by start()
    emitted,             \* events the last step emitted or recorded
    coordState           \* history: Running while PortfolioManager runs, else
                         \* EmergencyStopped if an emergency stop was invoked
                         \* since the last start, else Stopped

riskVars == <<riskLimits, portfolioMetrics, rmPositions, maxPortfolioValue,
              lastCheck, admittedSince>>

scalpVars == <<scalping, clock>>

unitVars == <<enabled, isRunning, positions, tick, parameters, scalpVars>>

monitorVars == <<tradeHistory, securityEventHistory>>

handlerVars == <<errorCounts, circuitBreakers>>

limitVars == <<rateLimitMap>>

utilVars == <<monitorVars, handlerVars, limitVars, thrown>>

coordVars == <<allocations, pmRunning, totalPortfolioValue, botRunning, startPc,
               timers, coordState>>

vars == <<riskLimits, portfolioMetrics, rmPositions, maxPortfolioValue,
          riskViolations, lastCheck, admittedSince,
          enabled, isRunning, positions, tick, parameters, scalping, clock, tradeHistory,
          securityEventHistory, errorCounts, circuitBreakers, rateLimitMap, thrown,
          allocations, pmRunning, totalPortfolioValue, botRunning, startPc,
          timers, emitted, coordState>>

\* ------------------------------------------------------------- RiskManager
getDefaultRiskLimits ==
    [maxTotalExposure |-> 100, maxPositionSize |-> 10, maxDailyLoss |-> 5,
     maxDrawdown |-> 15, maxCorrelation |-> 70, maxLeverage |-> 1,
     minLiquidity |-> 100, maxVolatility |-> 50]

initializePortfolioMetrics ==
    [totalValue |-> 0, totalExposure |-> 0, dailyPnL |-> 0, maxDrawdown |-> 0,
     winRate |-> RInt(0), averageWin |-> RInt(0), averageLoss |-> RInt(0),
     correlationMatrix |-> << >>, volatility |-> 0, liquidity |-> 0]

\* Fraction of the stored positions' tokens that equal tokenIn or tokenOut.
calculateCorrelationRisk(stored, tokenIn, tokenOut) ==
    LET hits(p) == (IF p.tokenIn = tokenIn \/ p.tokenIn = tokenOut THEN 1 ELSE 0)
                 + (IF p.tokenOut = tokenIn \/ p.tokenOut = tokenOut THEN 1 ELSE 0)
        tokenCount == SumOver(stored, hits)
        n == 2 * Len(stored)
    IN  Rat(tokenCount * 100, IF n > 1 THEN n ELSE 1)

\* a catch block that fails open
checkPositionRiskCatchOpen ==
    [allowed |-> TRUE, reason |-> <<"Error calculating risk">>, riskScore |-> RInt(100)]

\* What the catch block of checkPositionRisk returns.
checkPositionRiskCatch ==
    [allowed |-> FALSE, reason |-> <<"Error calculating risk">>, riskScore |-> RInt(100)]

HardReject(why) == [allowed |-> FALSE, reason |-> <<why>>, riskScore |-> RInt(100)]

\* The composite score of lines 133-150, before the threshold.
checkPositionRiskScore(limits, metrics, stored, tokenIn, tokenOut, positionValue) ==
    LET newTotalExposure == metrics.totalExposure + positionValue
        base == RAdd(RAdd(RAdd(RAdd(
                    Rat(30 * positionValue, limits.maxPositionSize),
                    Rat(25 * newTotalExposure, limits.maxTotalExposure)),
                    RAbs(Rat(20 * metrics.dailyPnL, limits.maxDailyLoss))),
                    Rat(15 * metrics.maxDrawdown, limits.maxDrawdown)),
                    Rat(10 * metrics.volatility, limits.maxVolatility))
        corr == RGreaterInt(calculateCorrelationRisk(stored, tokenIn, tokenOut),
                            limits.maxCorrelation)
        liq == metrics.liquidity < limits.minLiquidity
    IN  [score |-> RAdd(RAdd(base, RInt(IF corr THEN 20 ELSE 0)),
                        RInt(IF liq THEN 15 ELSE 0)),
         reasons |-> (IF corr THEN <<"High correlation risk">> ELSE << >>)
                     \o (IF liq THEN <<"Low liquidity">> ELSE << >>)]

\* an admission check that skips the daily-loss rejection
checkPositionRiskNoDailyLoss(limits, metrics, stored, tokenIn, tokenOut, amount, price, fault) ==
    LET positionValue == amount * price
        s == checkPositionRiskScore(limits, metrics, stored, tokenIn, tokenOut,
                                    positionValue)
    IN  IF fault THEN checkPositionRiskCatch
        ELSE IF positionValue > limits.maxPositionSize
            THEN HardReject("Position size exceeds maximum")
        ELSE IF metrics.totalExposure + positionValue > limits.maxTotalExposure
            THEN HardReject("Total exposure would exceed maximum")
        ELSE IF metrics.maxDrawdown > limits.maxDrawdown
            THEN HardReject("Drawdown exceeds limit")
        ELSE [allowed |-> RLessInt(s.score, 80), reason |-> s.reasons,
              riskScore |-> s.score]

\* an admission check whose threshold is 100
checkPositionRiskThreshold100(limits, metrics, stored, tokenIn, tokenOut, amount, price, fault) ==
    LET positionValue == amount * price
        s == checkPositionRiskScore(limits, metrics, stored, tokenIn, tokenOut,
                                    positionValue)
    IN  IF fault THEN checkPositionRiskCatch
        ELSE IF positionValue > limits.maxPositionSize
            THEN HardReject("Position size exceeds maximum")
        ELSE IF metrics.totalExposure + positionValue > limits.maxTotalExposure
            THEN HardReject("Total exposure would exceed maximum")
        ELSE IF metrics.dailyPnL < -limits.maxDailyLoss
            THEN HardReject("Daily loss exceeds limit")
        ELSE IF metrics.maxDrawdown > limits.maxDrawdown
            THEN HardReject("Drawdown exceeds limit")
        ELSE [allowed |-> RLessInt(s.score, 100), reason |-> s.reasons,
              riskScore |-> s.score]

\* an admission check that goes by the composite score alone
checkPositionRiskScoreOnly(limits, metrics, stored, tokenIn, tokenOut, amount, price, fault) ==
    LET s == checkPositionRiskScore(limits, metrics, stored, tokenIn, tokenOut, amount * price)
    IN  IF fault THEN checkPositionRiskCatch
        ELSE [allowed |-> RLessInt(s.score, 80), reason |-> s.reasons, riskScore |-> s.score]

\* checkPositionRisk(tokenIn, tokenOut, amount, price); fault: an exception is
\* raised while the try block is evaluated.
checkPositionRisk(limits, metrics, stored, tokenIn, tokenOut, amount, price, fault) ==
    LET positionValue == amount * price
        newTotalExposure == metrics.totalExposure + positionValue
        s == checkPositionRiskScore(limits, metrics, stored, tokenIn, tokenOut,
                                    positionValue)
        allowed == RLessInt(s.score, 80)
    IN  IF fault THEN checkPositionRiskCatch
        ELSE IF positionValue > limits.maxPositionSize
            THEN HardReject("Position size exceeds maximum")
        ELSE IF newTotalExposure > limits.maxTotalExposure
            THEN HardReject("Total exposure would exceed maximum")
        ELSE IF metrics.dailyPnL < -limits.maxDailyLoss
            THEN HardReject("Daily loss exceeds limit")
        ELSE IF metrics.maxDrawdown > limits.maxDrawdown
            THEN HardReject("Drawdown exceeds limit")
        ELSE [allowed |-> allowed,
              reason |-> s.reasons \o (IF allowed THEN << >>
                                       ELSE <<"Risk score exceeds threshold 80">>),
              riskScore |-> s.score]

\* a limit check that lists the first breach only
checkRiskLimitsFirstViolation(limits, metrics) ==
    IF metrics.totalExposure > limits.maxTotalExposure
       THEN <<"Total exposure limit exceeded">>
    ELSE IF metrics.dailyPnL < -limits.maxDailyLoss
       THEN <<"Daily loss limit exceeded">>
    ELSE IF metrics.maxDrawdown > limits.maxDrawdown
       THEN <<"Drawdown limit exceeded">>
    ELSE << >>

\* The limit breaches checkRiskLimits lists.
checkRiskLimitsViolations(limits, metrics) ==
    (IF metrics.totalExposure > limits.maxTotalExposure
        THEN <<"Total exposure limit exceeded">> ELSE << >>)
    \o (IF metrics.dailyPnL < -limits.maxDailyLoss
        THEN <<"Daily loss limit exceeded">> ELSE << >>)
    \o (IF metrics.maxDrawdown > limits.maxDrawdown
        THEN <<"Drawdown limit exceeded">> ELSE << >>)

\* The metrics updatePortfolioMetrics computes from a snapshot; hwm is the
\* high-water mark after the update.  totalValue is read, never written.
updatePortfolioMetricsHwm(metrics, hwm) ==
    IF metrics.totalValue > hwm THEN metrics.totalValue ELSE hwm

updatePortfolioMetricsResult(metrics, hwm, snapshot) ==
    LET amountIn(p) == p.amountIn
        pnl(p) == IF p.today THEN p.amountOut - p.amountIn ELSE 0
        newHwm == updatePortfolioMetricsHwm(metrics, hwm)
        closedPositions == SelectSeq(snapshot, LAMBDA p : p.status = "closed")
        profitablePositions == SelectSeq(closedPositions, LAMBDA p : p.amountOut > p.amountIn)
        losingPositions == SelectSeq(closedPositions, LAMBDA p : p.amountOut <= p.amountIn)
        win(p) == p.amountOut - p.amountIn
        loss(p) == p.amountIn - p.amountOut
        hasClosed == Len(closedPositions) > 0
    IN  [metrics EXCEPT
            !.totalExposure = SumOver(snapshot, amountIn),
            !.dailyPnL = SumOver(snapshot, pnl),
            !.maxDrawdown = IF newHwm > 0
                               THEN ((newHwm - metrics.totalValue) * 100) \div newHwm
                               ELSE 0,
            !.winRate = IF hasClosed
                           THEN RDiv(Len(profitablePositions), Len(closedPositions))
                           ELSE @,
            !.averageWin = IF hasClosed
                              THEN (IF Len(profitablePositions) > 0
                                       THEN RDiv(SumOver(profitablePositions, win),
                                                 Len(profitablePositions))
                                       ELSE RInt(0))
                              ELSE @,
            !.averageLoss = IF hasClosed
                               THEN (IF Len(losingPositions) > 0
                                        THEN RDiv(SumOver(losingPositions, loss),
                                                  Len(losingPositions))
                                        ELSE RInt(0))
                               ELSE @]

\* What this.positions holds of a snapshot.  The map keeps references to the
\* callers' Position objects, whose status closePosition changes in place; the
\* engine reads tokenIn and tokenOut of them and nothing else.
storedPositions(snapshot) ==
    [i \in 1..Len(snapshot) |->
        [tokenIn |-> snapshot[i].tokenIn, tokenOut |-> snapshot[i].tokenOut]]

\* what Math.random() * 0.5 may come to, in percent
RandomDraws == { 0, 25 }

\* calculateCorrelationMatrix: one entry per ordered pair of distinct tokens of
\* the snapshot, each a fresh Math.random() * 0.5; the entries of one call are
\* kept at one level, drawn anew by every call.
calculateCorrelationMatrix(snapshot, draw) ==
    LET tokens == { snapshot[i].tokenIn : i \in 1..Len(snapshot) }
                  \cup { snapshot[i].tokenOut : i \in 1..Len(snapshot) }
    IN  [k \in { pair \in tokens \X tokens : pair[1] # pair[2] } |-> draw]

\* updatePortfolioMetrics(positions) as a step of the engine; checkRiskLimits
\* at its end records one SecurityEvent of severity high and emits
\* riskViolation when it lists a breach.
updatePortfolioMetrics(snapshot) ==
    LET m == updatePortfolioMetricsResult(portfolioMetrics, maxPortfolioValue, snapshot)
    IN  /\ rmPositions' = storedPositions(snapshot)
        /\ maxPortfolioValue' = updatePortfolioMetricsHwm(portfolioMetrics, maxPortfolioValue)
        /\ \E draw \in RandomDraws :
              portfolioMetrics' =
                  [m EXCEPT !.correlationMatrix = calculateCorrelationMatrix(snapshot, draw)]
        /\ riskViolations' = checkRiskLimitsViolations(riskLimits, m)
        /\ emitted' = IF checkRiskLimitsViolations(riskLimits, m) # << >>
                          THEN <<"high", "riskViolation">> ELSE << >>
        /\ admittedSince' = 0

\* calculateOverallRiskScore: four ratios weighted 25 each, capped at 100.
calculateOverallRiskScore(limits, metrics) ==
    RMin(RAdd(RAdd(RAdd(
            Rat(25 * metrics.totalExposure, limits.maxTotalExposure),
            RAbs(Rat(25 * metrics.dailyPnL, limits.maxDailyLoss))),
            Rat(25 * metrics.maxDrawdown, limits.maxDrawdown)),
            Rat(25 * metrics.volatility, limits.maxVolatility)),
         RInt(100))

\* an update that merges the new limits into the default limits
updateRiskLimitsFromDefaults(limits, newLimits) ==
    [f \in DOMAIN limits |->
        IF f \in DOMAIN newLimits THEN newLimits[f] ELSE getDefaultRiskLimits[f]]

\* updateRiskLimits(newLimits): { ...this.riskLimits, ...newLimits }
updateRiskLimitsResult(limits, newLimits) ==
    [f \in DOMAIN limits |-> IF f \in DOMAIN newLimits THEN newLimits[f] ELSE limits[f]]


\* ------------------------------------------------------------- engine inputs
\* A Position as the engine reads it (types/index.ts): tokens, amounts, status
\* and whether createdAt falls on the current day.
Pos(tIn, tOut, aIn, aOut, st, td) ==
    [tokenIn |-> tIn, tokenOut |-> tOut, amountIn |-> aIn, amountOut |-> aOut,
     status |-> st, today |-> td]

\* positions a caller may put in a snapshot
SnapshotPositions ==
    { Pos(0, 1, 3, 0, "open", TRUE),
      Pos(0, 1, 95, 0, "open", FALSE),
      Pos(0, 2, 6, 22, "closed", TRUE) }

RECURSIVE SeqsUpTo(_, _)
SeqsUpTo(S, n) ==
    IF n = 0 THEN { << >> }
    ELSE LET shorter == SeqsUpTo(S, n - 1)
         IN  shorter \cup { Append(q, x) : q \in shorter, x \in S }

Snapshots == SeqsUpTo(SnapshotPositions, MaxSnapshot)

\* partial limit records an operator sends with PUT /risk/limits
LimitUpdates ==
    { [maxDailyLoss |-> 1, maxDrawdown |-> -5],
      [maxDailyLoss |-> 5, maxDrawdown |-> 15] }

\* partial limit records a caller of updateRiskLimits passes: any numbers, none
\* of them validated
EngineLimitUpdates == LimitUpdates \cup { [maxTotalExposure |-> -100] }

\* trade proposals: token pair, amount, price
ProposalTokens == { <<0, 1>>, <<2, 3>>, <<1, 2>> }
ProposalAmounts == { 1, 12 }
ProposalPrices == { 1, 2 }

NoCheck == [called |-> FALSE]

\* ------------------------------------------------------------- engine steps
RM_UpdatePortfolioMetrics ==
    \E snapshot \in Snapshots :
        /\ updatePortfolioMetrics(snapshot)
        /\ lastCheck' = [called |-> FALSE, snapshot |-> snapshot]
        /\ UNCHANGED <<riskLimits, unitVars, utilVars, coordVars>>

updateRiskLimits(newLimits) ==
    /\ riskLimits' = updateRiskLimitsResult(riskLimits, newLimits)
    /\ admittedSince' = 0
    /\ riskViolations' = << >>
    /\ emitted' = << >>
    /\ UNCHANGED <<portfolioMetrics, rmPositions, maxPortfolioValue>>

RM_UpdateRiskLimits ==
    \E newLimits \in EngineLimitUpdates :
        /\ updateRiskLimits(newLimits)
        /\ lastCheck' = [called |-> FALSE, newLimits |-> newLimits]
        /\ UNCHANGED <<unitVars, utilVars, coordVars>>

\* an admission check that books the admitted value as exposure
RM_CheckPositionRiskReserving ==
    \E tk \in ProposalTokens, amount \in ProposalAmounts, price \in ProposalPrices :
        LET result == checkPositionRisk(riskLimits, portfolioMetrics, rmPositions,
                                        tk[1], tk[2], amount, price, FALSE)
        IN  /\ lastCheck' = [called |-> TRUE, tokenIn |-> tk[1], tokenOut |-> tk[2],
                             amount |-> amount, price |-> price, fault |-> FALSE,
                             result |-> result]
            /\ portfolioMetrics' =
                  [portfolioMetrics EXCEPT !.totalExposure =
                      IF result.allowed THEN @ + amount * price ELSE @]
            /\ riskViolations' = << >>
            /\ emitted' = << >>
            /\ UNCHANGED <<riskLimits, rmPositions, maxPortfolioValue,
                           admittedSince, unitVars, utilVars, coordVars>>

\* checkPositionRisk called with any proposal
RM_CheckPositionRisk ==
    \E tk \in ProposalTokens, amount \in ProposalAmounts, price \in ProposalPrices,
       fault \in BOOLEAN :
        LET result == checkPositionRisk(riskLimits, portfolioMetrics, rmPositions,
                                        tk[1], tk[2], amount, price, fault)
            total == admittedSince + amount * price
        IN  /\ lastCheck' = [called |-> TRUE, tokenIn |-> tk[1], tokenOut |-> tk[2],
                             amount |-> amount, price |-> price, fault |-> fault,
                             result |-> result]
            /\ admittedSince' = IF result.allowed
                                   THEN (IF total > MaxAdmitted THEN MaxAdmitted ELSE total)
                                   ELSE admittedSince
            /\ riskViolations' = << >>
            /\ emitted' = << >>
            /\ UNCHANGED <<riskLimits, portfolioMetrics, rmPositions, maxPortfolioValue,
                           unitVars, utilVars, coordVars>>

\* getRiskMetrics(): the metrics, the limits and the overall score are read
RM_GetRiskMetrics ==
    /\ lastCheck' = [called |-> FALSE,
                     riskScore |-> calculateOverallRiskScore(riskLimits, portfolioMetrics)]
    /\ riskViolations' = << >>
    /\ emitted' = << >>
    /\ UNCHANGED <<riskLimits, portfolioMetrics, rmPositions, maxPortfolioValue,
                   admittedSince, unitVars, utilVars, coordVars>>


\* ------------------------------------------------------------- strategy units
\* PortfolioManager.strategies, in insertion order
StrategyOrder == <<"dca", "grid", "scalping", "arbitrage", "momentum">>

\* PortfolioManager.allocations, in insertion order
AllocationOrder == <<"dca", "grid", "arbitrage", "momentum", "scalping">>

Units == { StrategyOrder[i] : i \in 1..Len(StrategyOrder) }

\* The unit whose execute() is stepped here.  The trades of dca, grid and
\* scalping name their tokens by symbol ('GALA', 'ETH'), which
\* validateTradeParameters rejects, and arbitrage asks for maxTradeAmount 200
\* against the default maxPositionSize 0.1: their ticks reach neither the
\* gateway nor any state kept here.
TickUnits == { "momentum" }

Idle == [pc |-> "idle"]

\* BaseTradingStrategy.shouldRun
shouldRun(u) == enabled[u] /\ isRunning[u]

\* parameters.maxPositionSize || 0.1, in thousandths of a money unit: momentum
\* is built with 300, the others here with none
maxPositionSizeParam(u) == IF u = "momentum" THEN 3000 ELSE 1

\* validateTradeParameters for a unit whose token identifiers are addresses
validateTradeParameters(u, amount) ==
    /\ amount > 0
    /\ ~ (amount * 1000 > parameters[u].maxPositionSize)

\* the pairs galaSwapClient.getTradingPairs answers with, as (token0, token1)
TradingPairs == << <<0, 1>> >>

\* trade attempts one tick can make: analyzeMomentum looks at both tokens of
\* every pair
Slots(u) == 2 * Len(TradingPairs)

\* the amount asked for: min(maxPositionSize, momentum / threshold x 100) with
\* a momentum far above the threshold
TradeAmounts(u) == { 3 }

\* tokens of a slot: odd slots trade token0 of the pair for token1, even slots
\* token1 for token0
SlotTokens(slot) ==
    LET pair == TradingPairs[(slot + 1) \div 2]
    IN  IF slot % 2 = 1 THEN pair ELSE <<pair[2], pair[1]>>

\* MomentumStrategy.getExistingPosition
getExistingPosition(u, tokenIn, tokenOut) ==
    \E i \in 1..Len(positions[u]) :
        /\ positions[u][i].tokenIn = tokenIn
        /\ positions[u][i].tokenOut = tokenOut
        /\ positions[u][i].status = "open"

\* BaseTradingStrategy.createPosition
createPosition(u, tokenIn, tokenOut, amountIn) ==
    Append(positions[u], Pos(tokenIn, tokenOut, amountIn, 0, "open", TRUE))

\* BaseTradingStrategy.closePosition on the position at index i
closePosition(ps, i, status) == [ps EXCEPT ![i].status = status]

\* execute(): the gate, then the first await (getTradingPairs).  allocEnabled
\* remembers (history) what the unit's allocation said when the gate was passed.
ExecuteBegin(u) ==
    /\ tick[u].pc = "idle"
    /\ shouldRun(u)
    /\ tick' = [tick EXCEPT ![u] = [pc |-> "run", slot |-> 1,
                                    allocEnabled |-> allocations[u].enabled]]
    /\ riskViolations' = << >>
    /\ emitted' = << >>
    /\ UNCHANGED <<riskVars, enabled, parameters, scalpVars, utilVars,
                   isRunning, positions, coordVars>>

\* where a tick goes once its slots are done: momentum manages its positions
AfterSlots(u) ==
    IF Len(positions[u]) > 0 THEN [pc |-> "manage", idx |-> 1] ELSE Idle

NextSlot(u, slot) ==
    IF slot + 1 > Slots(u) THEN AfterSlots(u)
    ELSE [pc |-> "run", slot |-> slot + 1, allocEnabled |-> tick[u].allocEnabled]

\* a failed trade: momentum goes on with the next token
AfterFailure(u, slot) == NextSlot(u, slot)

\* the slot yields no signal (no momentum, no opportunity, low volume, slippage)
NoSignal(u) ==
    /\ tick[u].pc = "run"
    /\ tick' = [tick EXCEPT ![u] = AfterFailure(u, tick[u].slot)]
    /\ riskViolations' = << >>
    /\ emitted' = << >>
    /\ UNCHANGED <<riskVars, enabled, parameters, scalpVars, utilVars,
                   isRunning, positions, coordVars>>

\* BaseTradingStrategy.executeTrade up to the gateway call: the parameters are
\* validated and the trade is handed to galaSwapClient.executeTrade.  No
\* admission check is made on the way (admitted records that), and
\* feeCalculator.validateTransaction is not called (feeValidated records that).
executeTrade(u, slot, kind, amount) ==
    LET tk == SlotTokens(slot)
    IN  IF validateTradeParameters(u, amount)
           THEN [pc |-> "gateway", slot |-> slot, tokenIn |-> tk[1], tokenOut |-> tk[2],
                 amount |-> amount, admitted |-> FALSE, feeValidated |-> FALSE,
                 allocEnabled |-> tick[u].allocEnabled]
           ELSE AfterFailure(u, slot)

\* the slot yields a trade: considerLongPosition / considerShortPosition
Propose(u) ==
    /\ tick[u].pc = "run"
    /\ Len(positions[u]) < MaxPositions
    /\ \E kind \in {"long", "short"}, amount \in TradeAmounts(u) :
          LET tk == SlotTokens(tick[u].slot)
          IN  /\ ~ (IF kind = "long" THEN getExistingPosition(u, tk[1], tk[2])
                     ELSE getExistingPosition(u, tk[2], tk[1]))
              /\ tick' = [tick EXCEPT ![u] = executeTrade(u, tick[u].slot, kind, amount)]
    /\ riskViolations' = << >>
    /\ emitted' = << >>
    /\ UNCHANGED <<riskVars, enabled, parameters, scalpVars, utilVars,
                   isRunning, positions, coordVars>>

\* galaSwapClient.executeTrade returns: success, on which executeTrade emits
\* tradeExecuted, or a failure result (a thrown error is turned into one)
GatewayReturn(u) ==
    /\ tick[u].pc = "gateway"
    /\ \E success \in BOOLEAN :
          IF success
             THEN /\ positions' = [positions EXCEPT ![u] =
                                      createPosition(u, tick[u].tokenIn, tick[u].tokenOut,
                                                     tick[u].amount)]
                  /\ tick' = [tick EXCEPT ![u] = NextSlot(u, tick[u].slot)]
                  /\ emitted' = <<"tradeExecuted">>
             ELSE /\ positions' = positions
                  /\ tick' = [tick EXCEPT ![u] = AfterFailure(u, tick[u].slot)]
                  /\ emitted' = << >>
    /\ riskViolations' = << >>
    /\ UNCHANGED <<riskVars, enabled, parameters, scalpVars, utilVars,
                   isRunning, coordVars>>

\* manageExistingPositions: one position per step (a getMarketData await lies
\* between two); updatePosition -> checkStopLossTakeProfit closes an open
\* position as stopped or closed when the new price crosses its bounds
ManagePosition(u) ==
    /\ tick[u].pc = "manage"
    /\ LET i == tick[u].idx
           next == IF i + 1 > Len(positions[u]) THEN Idle ELSE [pc |-> "manage", idx |-> i + 1]
       IN  /\ tick' = [tick EXCEPT ![u] = next]
           /\ \E outcome \in {"open", "stopped", "closed"} :
                 positions' = IF positions[u][i].status = "open" /\ outcome # "open"
                                 THEN [positions EXCEPT ![u] = closePosition(@, i, outcome)]
                                 ELSE positions
    /\ riskViolations' = << >>
    /\ emitted' = << >>
    /\ UNCHANGED <<riskVars, enabled, parameters, scalpVars, utilVars,
                   isRunning, coordVars>>

\* ArbitrageStrategy.maxTradeAmount as PortfolioManager builds the unit (200)
maxTradeAmount == 2

\* ArbitrageStrategy.execute(): the gate, then the first await (getTradingPairs)
ArbitrageExecute ==
    /\ tick["arbitrage"].pc = "idle"
    /\ shouldRun("arbitrage")
    /\ tick' = [tick EXCEPT !["arbitrage"] = [pc |-> "find"]]
    /\ riskViolations' = << >>
    /\ emitted' = << >>
    /\ UNCHANGED <<riskVars, enabled, parameters, scalpVars, utilVars,
                   isRunning, positions, coordVars>>

\* findArbitrageOpportunities returns no opportunity
ArbitrageNoOpportunity ==
    /\ tick["arbitrage"].pc = "find"
    /\ tick' = [tick EXCEPT !["arbitrage"] = Idle]
    /\ riskViolations' = << >>
    /\ emitted' = << >>
    /\ UNCHANGED <<riskVars, enabled, parameters, scalpVars, utilVars,
                   isRunning, positions, coordVars>>

\* executeArbitrage on the best opportunity, up to the gateway call of its
\* first trade; a trade that fails validation ends the tick
executeArbitrage ==
    /\ tick["arbitrage"].pc = "find"
    /\ LET pair == TradingPairs[1]
       IN  tick' = [tick EXCEPT !["arbitrage"] =
                       IF validateTradeParameters("arbitrage", maxTradeAmount)
                          THEN [pc |-> "gateway", tokenIn |-> pair[1], tokenOut |-> pair[2],
                                amount |-> maxTradeAmount, admitted |-> FALSE,
                                feeValidated |-> FALSE]
                          ELSE Idle]
    /\ riskViolations' = << >>
    /\ emitted' = << >>
    /\ UNCHANGED <<riskVars, enabled, parameters, scalpVars, utilVars,
                   isRunning, positions, coordVars>>

\* a tick whose error leaves execute() uncaught
executePropagates(error) == [pc |-> "threw"]

\* the catch block of executeArbitrage (and, around it, of execute()): whatever
\* was thrown is logged and the call returns
executeArbitrageCatch(error) == Idle

\* the gateway answers the first trade with success, with a failure result, or
\* it throws, which executeTrade turns into a failure result.  On success
\* executeTrade emits tradeExecuted; getActualTradeAmount then returns '0',
\* which the second trade's validation refuses.  executeArbitrage throws on
\* either failed trade and logs the error in its own catch block (emitted: the
\* error logged when the first trade failed); execute() returns.  No position
\* is created on either way.
ArbitrageGatewayReturn ==
    /\ tick["arbitrage"].pc = "gateway"
    /\ \E outcome \in {"success", "failure", "throws"} :
          /\ tick' = [tick EXCEPT !["arbitrage"] = executeArbitrageCatch(outcome)]
          /\ emitted' = IF outcome = "success" THEN <<"tradeExecuted">> ELSE <<"error">>
    /\ riskViolations' = << >>
    /\ UNCHANGED <<riskVars, enabled, parameters, scalpVars, utilVars,
                   isRunning, positions, coordVars>>

\* what an operator sends with PUT /strategies/:name/parameters
ParameterUpdates == { <<"arbitrage", [maxPositionSize |-> 2000]>> }

\* BaseTradingStrategy.updateParameters: { ...this.parameters, ...newParameters }
updateParameters(name, newParameters) ==
    [parameters EXCEPT ![name] =
        [f \in DOMAIN @ |-> IF f \in DOMAIN newParameters THEN newParameters[f] ELSE @[f]]]

\* PUT /strategies/:name/parameters
UpdateParameters ==
    \E upd \in ParameterUpdates :
        /\ timers > 0
        /\ parameters' = updateParameters(upd[1], upd[2])
        /\ riskViolations' = << >>
        /\ emitted' = << >>
        /\ UNCHANGED <<riskVars, enabled, isRunning, positions, tick, scalpVars, utilVars,
                       coordVars>>


\* ------------------------------------------------------------- scalping unit
\* token symbols, which are no addresses
GALA == 0 - 1
ETH == 0 - 2

\* securityManager.validateWalletAddress: token addresses pass, symbols do not
validateWalletAddress(address) == address >= 0

\* ScalpingStrategy.parameters as PortfolioManager builds the unit, tradeSize
\* (25) and maxPositionSize in thousandths of a money unit; the unit has no
\* maxPositionSize, for which validateTradeParameters takes 0.1
scalpingParameters ==
    [targetToken |-> GALA, quoteToken |-> ETH, tradeSize |-> 250,
     maxTradesPerHour |-> 10, maxPositionSize |-> 1]

\* the unit's own fields after construction, no execute() call in flight and no
\* quick-exit timer pending; inCooldown: less than cooldownPeriod has passed
\* since lastTradeTime; result (an output): what executeTrade returned to the
\* call that the last step of the unit resumed, if it resumed one there
scalpingFields ==
    [tradesThisHour |-> 0, currentHour |-> 0, totalScalpingTrades |-> 0,
     inCooldown |-> FALSE, calls |-> [c \in 1..MaxCalls |-> Idle],
     quickExits |-> {}, result |-> "none"]

\* parameters a caller of updateParameters gives the unit: token addresses, a
\* trade size within the position size, one trade per hour
ScalpingParameterUpdates ==
    { [targetToken |-> 0, quoteToken |-> 1, tradeSize |-> 1000,
       maxTradesPerHour |-> 1, maxPositionSize |-> 1000] }

\* ScalpingStrategy.canTrade
canTrade(unit) ==
    /\ ~ unit.inCooldown
    /\ ~ (unit.tradesThisHour >= parameters["scalping"].maxTradesPerHour)

\* ScalpingStrategy.initialize
ScalpInitialize ==
    /\ isRunning' = [isRunning EXCEPT !["scalping"] = TRUE]
    /\ scalping' = [scalping EXCEPT !.result = "none"]
    /\ riskViolations' = << >>
    /\ emitted' = << >>
    /\ UNCHANGED <<riskVars, enabled, positions, tick, parameters, clock, utilVars,
                   coordVars>>

\* ScalpingStrategy.stop
ScalpStop ==
    /\ isRunning' = [isRunning EXCEPT !["scalping"] = FALSE]
    /\ scalping' = [scalping EXCEPT !.result = "none"]
    /\ riskViolations' = << >>
    /\ emitted' = << >>
    /\ UNCHANGED <<riskVars, enabled, positions, tick, parameters, clock, utilVars,
                   coordVars>>

\* updateParameters called on the scalping unit
ScalpUpdateParameters ==
    \E newParameters \in ScalpingParameterUpdates :
        /\ parameters' = updateParameters("scalping", newParameters)
        /\ scalping' = [scalping EXCEPT !.result = "none"]
        /\ riskViolations' = << >>
        /\ emitted' = << >>
        /\ UNCHANGED <<riskVars, enabled, isRunning, positions, tick, clock, utilVars,
                       coordVars>>

\* ScalpingStrategy.execute() up to its first await (getMarketData): the gate,
\* the reset of the hourly counter and canTrade
ScalpExecute(c) ==
    /\ scalping.calls[c].pc = "idle"
    /\ shouldRun("scalping")
    /\ LET reset == IF clock.hour # scalping.currentHour
                       THEN [scalping EXCEPT !.tradesThisHour = 0,
                                             !.currentHour = clock.hour]
                       ELSE scalping
       IN  scalping' = [reset EXCEPT
                           !.calls[c] = IF canTrade(reset) THEN [pc |-> "market"] ELSE Idle,
                           !.result = "none"]
    /\ riskViolations' = << >>
    /\ emitted' = << >>
    /\ UNCHANGED <<riskVars, enabled, isRunning, positions, tick, parameters, clock,
                   utilVars, coordVars>>

\* the trades the unit has executed or has at the gateway
tradesBegun ==
    scalping.totalScalpingTrades
    + Cardinality({ c \in 1..MaxCalls : scalping.calls[c].pc = "gateway" })

\* getMarketData returns to the call: it throws, or checkScalpingOpportunities
\* finds nothing (outcome none), or executeScalpingTrade calls executeTrade,
\* which hands the trade to the gateway when its parameters are valid and
\* returns success = false when they are not
ScalpMarketData(c) ==
    /\ scalping.calls[c].pc = "market"
    /\ \E outcome \in {"none", "buy", "sell"} :
          LET valid == /\ validateWalletAddress(parameters["scalping"].quoteToken)
                       /\ validateWalletAddress(parameters["scalping"].targetToken)
                       /\ parameters["scalping"].tradeSize > 0
                       /\ ~ (parameters["scalping"].tradeSize
                                > parameters["scalping"].maxPositionSize)
          IN  /\ outcome # "none" => tradesBegun < MaxTrades
              /\ scalping' = [scalping EXCEPT
                      !.calls[c] = IF outcome # "none" /\ valid
                                      THEN [pc |-> "gateway", direction |-> outcome]
                                      ELSE Idle,
                      !.result = IF outcome # "none" /\ ~ valid THEN "failure" ELSE "none"]
    /\ riskViolations' = << >>
    /\ emitted' = << >>
    /\ UNCHANGED <<riskVars, enabled, isRunning, positions, tick, parameters, clock,
                   utilVars, coordVars>>

\* a unit that counts a trade whatever the gateway answers
executeScalpingTradeCountsAll(unit, success) ==
    [unit EXCEPT !.inCooldown = TRUE,
                 !.tradesThisHour = @ + 1,
                 !.totalScalpingTrades = @ + 1]

\* executeScalpingTrade after executeTrade has returned: on success
\* lastTradeTime is set and the counters are incremented
executeScalpingTradeResult(unit, success) ==
    IF success
       THEN [unit EXCEPT !.inCooldown = TRUE,
                         !.tradesThisHour = @ + 1,
                         !.totalScalpingTrades = @ + 1]
       ELSE unit

\* the gateway answers the call's trade.  On success executeTrade emits
\* tradeExecuted, the unit counts the trade, creates the position and sets the
\* 30-second timer of its quick exit; a failure result (a thrown error is turned
\* into one) changes nothing
ScalpGatewayReturn(c) ==
    /\ scalping.calls[c].pc = "gateway"
    /\ \E success \in BOOLEAN :
          LET buy == scalping.calls[c].direction = "buy"
              tokenIn == IF buy THEN parameters["scalping"].quoteToken
                         ELSE parameters["scalping"].targetToken
              tokenOut == IF buy THEN parameters["scalping"].targetToken
                          ELSE parameters["scalping"].quoteToken
              counted == executeScalpingTradeResult(scalping, success)
          IN  /\ scalping' = [counted EXCEPT
                      !.calls[c] = Idle,
                      !.quickExits = IF success THEN @ \cup {Len(positions["scalping"]) + 1}
                                     ELSE @,
                      !.result = IF success THEN "success" ELSE "failure"]
              /\ positions' = IF success
                                 THEN [positions EXCEPT !["scalping"] =
                                          createPosition("scalping", tokenIn, tokenOut,
                                              parameters["scalping"].tradeSize \div 1000)]
                                 ELSE positions
              /\ emitted' = IF success THEN <<"tradeExecuted">> ELSE << >>
              /\ clock' = IF success THEN [clock EXCEPT !.executed = @ + 1] ELSE clock
    /\ riskViolations' = << >>
    /\ UNCHANGED <<riskVars, enabled, isRunning, tick, parameters, utilVars, coordVars>>

\* the timer of checkQuickExit fires for position i: an open position is
\* closed or stopped when the price has moved far enough, and left open when
\* it has not or getMarketData throws
checkQuickExit(i) ==
    /\ i \in scalping.quickExits
    /\ scalping' = [scalping EXCEPT !.quickExits = @ \ {i}, !.result = "none"]
    /\ \E outcome \in {"open", "closed", "stopped"} :
          positions' = IF positions["scalping"][i].status = "open" /\ outcome # "open"
                          THEN [positions EXCEPT !["scalping"] = closePosition(@, i, outcome)]
                          ELSE positions
    /\ riskViolations' = << >>
    /\ emitted' = << >>
    /\ UNCHANGED <<riskVars, enabled, isRunning, tick, parameters, clock, utilVars,
                   coordVars>>

\* cooldownPeriod (30 seconds) has passed since lastTradeTime
CooldownPasses ==
    /\ scalping.inCooldown
    /\ scalping' = [scalping EXCEPT !.inCooldown = FALSE, !.result = "none"]
    /\ riskViolations' = << >>
    /\ emitted' = << >>
    /\ UNCHANGED <<riskVars, enabled, isRunning, positions, tick, parameters, clock,
                   utilVars, coordVars>>

\* the clock passes into the next hour
HourPasses ==
    /\ clock.hour < 1 + MaxHours
    /\ clock' = [hour |-> clock.hour + 1, executed |-> 0]
    /\ scalping' = [scalping EXCEPT !.result = "none"]
    /\ riskViolations' = << >>
    /\ emitted' = << >>
    /\ UNCHANGED <<riskVars, enabled, isRunning, positions, tick, parameters, utilVars,
                   coordVars>>

\* ------------------------------------------------------------- monitoring
\* the trade count above which checkTradingPatterns reports
unusualTradeCount == 20

\* most events callers record within one hour
MaxEvents == 7
\* most nested calls the call stack holds
MaxStack == 3
\* the high-severity authentication events above which checkSecurityThreats reports
failedAuthLimit == 5

SecurityEvent(type, severity) == [type |-> type, severity |-> severity]

\* the events callers record
SecurityEvents ==
    { SecurityEvent("authentication", "high"),
      SecurityEvent("authentication", "low"),
      SecurityEvent("error", "high") }

\* MonitoringSystem.recordSecurityEvent and the checkSecurityThreats call that
\* ends it, on the events of the last hour: the history the call leaves and the
\* error it ends with, depth nested calls below the caller's. A call that
\* finds the stack full ends in RangeError (Maximum call stack size exceeded).
RECURSIVE recordSecurityEvent(_, _, _)
checkSecurityThreats(history, depth) ==
    LET failedAuthAttempts ==
            { i \in 1..Len(history) : /\ history[i].type = "authentication"
                                      /\ history[i].severity = "high" }
    IN  IF Cardinality(failedAuthAttempts) > failedAuthLimit
        THEN IF depth = MaxStack
             THEN [history |-> history, thrown |-> "RangeError"]
             ELSE recordSecurityEvent(history,
                                      SecurityEvent("authorization", "critical"),
                                      depth + 1)
        ELSE [history |-> history, thrown |-> "none"]

recordSecurityEvent(history, event, depth) ==
    checkSecurityThreats(Append(history, event), depth)

\* the severities of the events a call recorded (securityEvent is emitted for each)
Recorded(before, after) ==
    [i \in 1..(Len(after) - Len(before)) |-> after[Len(before) + i].severity]

\* a caller records an event
RecordSecurityEvent ==
    \E event \in SecurityEvents :
        /\ Len(securityEventHistory) < MaxEvents
        /\ LET result == recordSecurityEvent(securityEventHistory, event, 0)
           IN  /\ securityEventHistory' = result.history
               /\ thrown' = result.thrown
        /\ emitted' = Recorded(securityEventHistory, securityEventHistory')
        /\ riskViolations' = << >>
        /\ UNCHANGED <<riskVars, unitVars, tradeHistory, handlerVars, limitVars,
                       coordVars>>

\* the oldest recorded event becomes older than one hour and counts no more
EventAgesOut ==
    /\ securityEventHistory # << >>
    /\ securityEventHistory' = Tail(securityEventHistory)
    /\ thrown' = "none"
    /\ riskViolations' = << >>
    /\ emitted' = << >>
    /\ UNCHANGED <<riskVars, unitVars, tradeHistory, handlerVars, limitVars, coordVars>>

\* MonitoringSystem.recordTrade, as galaSwapClient.executeTrade calls it for
\* every trade it has sent or failed to send: the record is pushed,
\* tradeExecuted is emitted, and checkTradingPatterns records a SecurityEvent of
\* severity high when more than 20 records are younger than 5 minutes
recordTrade ==
    /\ Len(tradeHistory) < MaxHistory
    /\ Len(securityEventHistory) < MaxEvents
    /\ tradeHistory' = Append(tradeHistory, 0)
    /\ LET result == IF Len(tradeHistory') > unusualTradeCount
                     THEN recordSecurityEvent(securityEventHistory,
                                              SecurityEvent("trade_execution", "high"), 0)
                     ELSE [history |-> securityEventHistory, thrown |-> "none"]
       IN  /\ securityEventHistory' = result.history
           /\ thrown' = result.thrown
    /\ emitted' = <<"tradeExecuted">>
                     \o Recorded(securityEventHistory, securityEventHistory')
    /\ riskViolations' = << >>
    /\ UNCHANGED <<riskVars, unitVars, handlerVars, limitVars, coordVars>>

\* half a window (150 seconds) passes: every record ages, and the records
\* older than the window are counted no more
HalfWindowPasses ==
    /\ tradeHistory # << >>
    /\ tradeHistory' = [i \in 1..Cardinality({ j \in 1..Len(tradeHistory) :
                                                  tradeHistory[j] = 0 }) |-> 1]
    /\ riskViolations' = << >>
    /\ emitted' = << >>
    /\ UNCHANGED <<riskVars, unitVars, securityEventHistory, handlerVars, limitVars,
                   thrown, coordVars>>


\* ------------------------------------------------------------- error handler
\* most failures a circuit breaker counts
MaxFailures == 2
\* most security-related errors handled within one hour
MaxSecurityErrors == 1
\* ErrorHandler.MAX_ERRORS_PER_OPERATION
MAX_ERRORS_PER_OPERATION == 10
\* ErrorHandler.CIRCUIT_BREAKER_THRESHOLD
CIRCUIT_BREAKER_THRESHOLD == 5
\* ErrorHandler.CIRCUIT_BREAKER_TIMEOUT, in steps of the clock (a step is a
\* little more than half the timeout)
CIRCUIT_BREAKER_TIMEOUT == 1

\* the operations a context names (the empty string: none) and the messages
\* errors carry
Operations == { "http_request", "" }
Messages == { "timeout", "rate limit exceeded" }

\* ErrorHandler.getErrorKey
getErrorKey(name, operation) ==
    (IF operation = "" THEN "unknown" ELSE operation) \o "-" \o name

ErrorKeys == { getErrorKey("Error", operation) : operation \in Operations }

\* ErrorHandler.isSecurityError, on the messages above
isSecurityError(message) == message = "rate limit exceeded"

\* the recovery actions a caller passes: none, or one circuit breaker with
\* the threshold named (0: none named)
RecoveryActions ==
    { << >> } \cup { <<[type |-> "circuit_breaker", threshold |-> t]>> : t \in { 0, 2 } }

\* an error key without a circuit breaker: what handleCircuitBreaker starts from
noBreaker == [present |-> FALSE, failures |-> 0, age |-> 0, state |-> "closed"]

\* ErrorHandler.updateErrorCount
updateErrorCount(errorKey) ==
    LET currentCount == errorCounts[errorKey]
    IN  [errorCounts EXCEPT ![errorKey] =
            IF currentCount > MAX_ERRORS_PER_OPERATION THEN 0 ELSE currentCount + 1]

\* ErrorHandler.isCircuitBreakerOpen: what it returns, and the breaker it leaves
isCircuitBreakerOpen(errorKey) ==
    LET circuitBreaker == circuitBreakers[errorKey]
    IN  IF ~ circuitBreaker.present THEN [open |-> FALSE, breaker |-> circuitBreaker]
        ELSE IF circuitBreaker.state = "open"
        THEN IF circuitBreaker.age > CIRCUIT_BREAKER_TIMEOUT
             THEN [open |-> FALSE,
                   breaker |-> [circuitBreaker EXCEPT !.state = "half-open"]]
             ELSE [open |-> TRUE, breaker |-> circuitBreaker]
        ELSE [open |-> FALSE, breaker |-> circuitBreaker]

\* ErrorHandler.handleCircuitBreaker: the breaker it stores
handleCircuitBreaker(action, circuitBreaker) ==
    LET threshold == IF action.threshold = 0 THEN CIRCUIT_BREAKER_THRESHOLD
                     ELSE action.threshold
        failures == circuitBreaker.failures + 1
    IN  [present |-> TRUE, failures |-> failures, age |-> 0,
         state |-> IF failures >= threshold THEN "open" ELSE circuitBreaker.state]

\* ErrorHandler.handleError: the error is counted; an open breaker rejects the
\* call; else a security-related error is recorded as a SecurityEvent, the
\* recovery actions run (each failure caught and logged), error is emitted
\* and the error is thrown again
handleError ==
    \E operation \in Operations, message \in Messages, recoveryActions \in RecoveryActions :
        LET errorKey == getErrorKey("Error", operation)
            check == isCircuitBreakerOpen(errorKey)
            recorded == IF isSecurityError(message)
                        THEN recordSecurityEvent(securityEventHistory,
                                                 SecurityEvent("error", "high"), 0)
                        ELSE [history |-> securityEventHistory, thrown |-> "none"]
        IN  /\ recoveryActions # << >> => circuitBreakers[errorKey].failures < MaxFailures
            /\ isSecurityError(message) => Len(securityEventHistory) < MaxSecurityErrors
            /\ errorCounts' = updateErrorCount(errorKey)
            /\ IF check.open
               THEN /\ circuitBreakers' = circuitBreakers
                    /\ securityEventHistory' = securityEventHistory
                    /\ thrown' = "Circuit breaker is open"
                    /\ emitted' = << >>
               ELSE /\ circuitBreakers' =
                           [circuitBreakers EXCEPT ![errorKey] =
                               IF recoveryActions = << >> \/ recorded.thrown # "none"
                               THEN check.breaker
                               ELSE handleCircuitBreaker(recoveryActions[1], check.breaker)]
                    /\ securityEventHistory' = recorded.history
                    /\ thrown' = IF recorded.thrown = "none" THEN "Error"
                                 ELSE recorded.thrown
                    /\ emitted' = Recorded(securityEventHistory, securityEventHistory')
                                     \o (IF recorded.thrown = "none" THEN <<"error">>
                                         ELSE << >>)
            /\ riskViolations' = << >>
            /\ UNCHANGED <<riskVars, unitVars, tradeHistory, limitVars, coordVars>>

\* ErrorHandler.reset
HandlerReset ==
    /\ errorCounts' = [k \in ErrorKeys |-> 0]
    /\ circuitBreakers' = [k \in ErrorKeys |-> noBreaker]
    /\ thrown' = "none"
    /\ riskViolations' = << >>
    /\ emitted' = << >>
    /\ UNCHANGED <<riskVars, unitVars, monitorVars, limitVars, coordVars>>

\* the clock of the circuit breakers steps: the last failure of every breaker
\* lies one step further back
BreakerClockSteps ==
    /\ \E k \in ErrorKeys : /\ circuitBreakers[k].present
                            /\ circuitBreakers[k].age <= CIRCUIT_BREAKER_TIMEOUT
    /\ circuitBreakers' =
           [k \in ErrorKeys |->
               IF /\ circuitBreakers[k].present
                  /\ circuitBreakers[k].age <= CIRCUIT_BREAKER_TIMEOUT
               THEN [circuitBreakers[k] EXCEPT !.age = @ + 1]
               ELSE circuitBreakers[k]]
    /\ thrown' = "none"
    /\ riskViolations' = << >>
    /\ emitted' = << >>
    /\ UNCHANGED <<riskVars, unitVars, monitorVars, errorCounts, limitVars, coordVars>>

\* ------------------------------------------------------------- rate limits
\* the identifiers, limits and window lengths (in steps of the clock) callers pass
Identifiers == { "galaswap-api", "http" }
Limits == 0..2
Windows == 1..2

\* an identifier without an entry
noEntry == [present |-> FALSE, count |-> 0, remaining |-> 0]

\* SecurityManager.checkRateLimit: what it returns and the map it leaves;
\* remaining is resetTime - now, so now > resetTime when it is negative
checkRateLimit(identifier, limit, windowMs) ==
    LET current == rateLimitMap[identifier]
    IN  IF ~ current.present \/ current.remaining < 0
        THEN [allowed |-> TRUE,
              map |-> [rateLimitMap EXCEPT ![identifier] =
                          [present |-> TRUE, count |-> 1, remaining |-> windowMs]]]
        ELSE IF current.count >= limit
        THEN [allowed |-> FALSE, map |-> rateLimitMap]
        ELSE [allowed |-> TRUE,
              map |-> [rateLimitMap EXCEPT ![identifier].count = @ + 1]]

\* a request interceptor (GalaSwapClient.setupInterceptors) checks the rate
\* limit and throws when the request is not allowed
CheckRateLimit(identifier, limit, windowMs) ==
    LET result == checkRateLimit(identifier, limit, windowMs)
    IN  /\ rateLimitMap' = result.map
        /\ thrown' = IF result.allowed THEN "none" ELSE "Rate limit exceeded"
        /\ riskViolations' = << >>
        /\ emitted' = << >>
        /\ UNCHANGED <<riskVars, unitVars, monitorVars, handlerVars, coordVars>>

\* SecurityManager.cleanupRateLimits
cleanupRateLimits ==
    /\ rateLimitMap' = [id \in Identifiers |->
                           IF rateLimitMap[id].present /\ rateLimitMap[id].remaining < 0
                           THEN noEntry ELSE rateLimitMap[id]]
    /\ thrown' = "none"
    /\ riskViolations' = << >>
    /\ emitted' = << >>
    /\ UNCHANGED <<riskVars, unitVars, monitorVars, handlerVars, coordVars>>

\* the clock of the rate limits steps: every resetTime comes one step nearer
LimitClockSteps ==
    /\ \E id \in Identifiers : rateLimitMap[id].present /\ rateLimitMap[id].remaining >= 0
    /\ rateLimitMap' = [id \in Identifiers |->
                           IF rateLimitMap[id].present /\ rateLimitMap[id].remaining >= 0
                           THEN [rateLimitMap[id] EXCEPT !.remaining = @ - 1]
                           ELSE rateLimitMap[id]]
    /\ thrown' = "none"
    /\ riskViolations' = << >>
    /\ emitted' = << >>
    /\ UNCHANGED <<riskVars, unitVars, monitorVars, handlerVars, coordVars>>

\* the monitoring system, the error handler and the security manager after
\* construction
UtilInit ==
    /\ securityEventHistory = << >>
    /\ errorCounts = [k \in ErrorKeys |-> 0]
    /\ circuitBreakers = [k \in ErrorKeys |-> noBreaker]
    /\ rateLimitMap = [id \in Identifiers |-> noEntry]
    /\ thrown = "none"


\* ------------------------------------------------------------- coordinator
\* PortfolioManager.setupDefaultAllocations
setupDefaultAllocations ==
    [u \in Units |->
        CASE u = "dca"       -> [allocation |-> 40, riskLevel |-> "low", enabled |-> TRUE]
          [] u = "grid"      -> [allocation |-> 25, riskLevel |-> "medium", enabled |-> TRUE]
          [] u = "arbitrage" -> [allocation |-> 20, riskLevel |-> "medium", enabled |-> TRUE]
          [] u = "momentum"  -> [allocation |-> 10, riskLevel |-> "high", enabled |-> TRUE]
          [] u = "scalping"  -> [allocation |-> 5, riskLevel |-> "high", enabled |-> FALSE]]

\* PortfolioManager.getDefaultDiversificationConfig, in percent
rebalanceThreshold == 10
emergencyStopLoss == 20
configMaxDrawdown == 15

\* strategy.stop() on every unit
stopAll == [u \in Units |-> FALSE]

\* initialize() of the units of `names` whose allocation is enabled
initializeEnabled(running, names) ==
    [u \in Units |-> IF u \in names /\ allocations[u].enabled THEN TRUE ELSE running[u]]

\* The tail of PortfolioManager.start() after the grid unit's setupGrid has
\* returned: the remaining units are initialised and both timers are created;
\* then DiversifiedTradingBot.start() sets its own flag.
startTail(running) ==
    /\ isRunning' = initializeEnabled(running, {"arbitrage", "momentum", "scalping"})
    /\ timers' = timers + 1
    /\ botRunning' = TRUE
    /\ startPc' = "none"
    /\ riskViolations' = << >>
    /\ emitted' = <<"started">>

\* DiversifiedTradingBot.start() (at boot, or POST /portfolio/start when the
\* bot's flag is down) -> PortfolioManager.start(), up to the first gateway await
\* (GridStrategy.initialize -> setupGrid -> getMarketData)
StartBegin ==
    /\ ~botRunning
    /\ startPc = "none"
    /\ timers < MaxStarts
    /\ pmRunning' = TRUE
    /\ coordState' = "Running"
    /\ IF allocations["grid"].enabled
          THEN /\ isRunning' = initializeEnabled(isRunning, {"dca", "grid"})
               /\ startPc' = "gridInit"
               /\ riskViolations' = << >>
               /\ emitted' = << >>
               /\ UNCHANGED <<timers, botRunning>>
          ELSE startTail(initializeEnabled(isRunning, {"dca"}))
    /\ UNCHANGED <<riskVars, enabled, parameters, scalpVars, utilVars,
                   positions, tick, allocations, totalPortfolioValue>>

StartFinish ==
    /\ startPc = "gridInit"
    /\ startTail(isRunning)
    /\ UNCHANGED <<riskVars, enabled, parameters, scalpVars, utilVars,
                   positions, tick, allocations, pmRunning,
                   totalPortfolioValue, coordState>>

\* the HTTP server listens once a start() has reached app.listen
listening == timers > 0

\* POST /portfolio/stop -> DiversifiedTradingBot.stop() -> PortfolioManager.stop()
Stop ==
    /\ listening
    /\ botRunning
    /\ botRunning' = FALSE
    /\ pmRunning' = FALSE
    /\ isRunning' = stopAll
    /\ coordState' = IF coordState = "EmergencyStopped" THEN coordState ELSE "Stopped"
    /\ riskViolations' = << >>
    /\ emitted' = << >>
    /\ UNCHANGED <<riskVars, enabled, parameters, scalpVars, utilVars,
                   positions, tick, allocations, totalPortfolioValue,
                   startPc, timers>>

\* POST /portfolio/emergency-stop -> DiversifiedTradingBot.emergencyStop():
\* PortfolioManager.stop() and one critical SecurityEvent
OperatorEmergencyStop ==
    /\ listening
    /\ botRunning' = FALSE
    /\ pmRunning' = FALSE
    /\ isRunning' = stopAll
    /\ riskViolations' = << >>
    /\ emitted' = <<"critical">>
    /\ coordState' = "EmergencyStopped"
    /\ UNCHANGED <<riskVars, enabled, parameters, scalpVars, utilVars,
                   positions, tick, allocations, totalPortfolioValue,
                   startPc, timers>>

\* every open position of every unit closed with status stopped
stopOpenPositions ==
    [u \in Units |->
        [i \in 1..Len(positions[u]) |->
            IF positions[u][i].status = "open"
               THEN [positions[u][i] EXCEPT !.status = "stopped"]
               ELSE positions[u][i]]]

\* PortfolioManager.emergencyStop(), called `times` times in a row
emergencyStop(times) ==
    /\ isRunning' = stopAll
    /\ positions' = stopOpenPositions
    /\ pmRunning' = FALSE
    /\ riskViolations' = << >>
    /\ emitted' = IF times = 2 THEN <<"emergencyStop", "emergencyStop">>
                   ELSE <<"emergencyStop">>
    /\ coordState' = "EmergencyStopped"

\* the two triggers of checkEmergencyConditions
drawdownTrigger == portfolioMetrics.maxDrawdown > emergencyStopLoss

dailyLossTrigger == portfolioMetrics.dailyPnL * 100 < -configMaxDrawdown * totalPortfolioValue

\* an emergency timer callback without the isRunning guard
EmergencyCheckUnguarded ==
    /\ timers > 0
    /\ drawdownTrigger \/ dailyLossTrigger
    /\ emergencyStop(IF drawdownTrigger /\ dailyLossTrigger THEN 2 ELSE 1)
    /\ UNCHANGED <<riskVars, enabled, parameters, scalpVars, utilVars,
                   tick, allocations, totalPortfolioValue, botRunning,
                   startPc, timers>>

\* the 30-second timer callback: checkEmergencyConditions
EmergencyCheck ==
    /\ timers > 0
    /\ pmRunning
    /\ drawdownTrigger \/ dailyLossTrigger
    /\ emergencyStop(IF drawdownTrigger /\ dailyLossTrigger THEN 2 ELSE 1)
    /\ UNCHANGED <<riskVars, enabled, parameters, scalpVars, utilVars,
                   tick, allocations, totalPortfolioValue, botRunning,
                   startPc, timers>>

\* reduceHighRiskExposure: setEnabled(false) on the units whose allocation is
\* high-risk and enabled
reduceHighRiskExposure ==
    [u \in Units |->
        IF allocations[u].riskLevel = "high" /\ allocations[u].enabled THEN FALSE
        ELSE enabled[u]]

\* checkDiversification on the metrics getRiskMetrics returns
checkDiversification(metrics) ==
    IF RGreaterInt(calculateOverallRiskScore(riskLimits, metrics), 70)
       THEN reduceHighRiskExposure ELSE enabled

\* A request field that is no number: undefined, as `allocation` is when the
\* body has no such field.  Arithmetic with it gives NaN, and every comparison
\* of the code with undefined or NaN is false.
undefined == 0 - 999

lessThan(a, b) == a # undefined /\ b # undefined /\ a < b

\* rebalanceIfNeeded: enabled allocations off 100 by more than the threshold
rebalanceNeeded ==
    LET share(u) == IF allocations[u].enabled THEN allocations[u].allocation ELSE 0
        isNaN == \E u \in Units : allocations[u].enabled /\ allocations[u].allocation = undefined
        totalAllocation == SumOver(AllocationOrder, share)
    IN  ~ isNaN /\ Abs(totalAllocation - 100) > rebalanceThreshold

\* rebalancePortfolio: for an enabled unit above 110% of its target value the
\* first floor(length x 0.1) positions are closed
rebalancePortfolio(total) ==
    [u \in Units |->
        LET amountIn(p) == p.amountIn
            strategyValue == SumOver(positions[u], amountIn)
            excess == Len(positions[u]) \div 10
        IN  IF allocations[u].enabled
               /\ allocations[u].allocation # undefined
               /\ strategyValue * 1000 > total * allocations[u].allocation * 11
               THEN [i \in 1..Len(positions[u]) |->
                        IF i <= excess THEN [positions[u][i] EXCEPT !.status = "closed"]
                        ELSE positions[u][i]]
               ELSE positions[u]]

\* all units' positions, flattened in strategy order
RECURSIVE Flatten(_)
Flatten(names) ==
    IF names = << >> THEN << >> ELSE positions[Head(names)] \o Flatten(Tail(names))

\* the 5-minute timer callback: monitorPortfolio, checkDiversification,
\* rebalanceIfNeeded
MonitoringCycle ==
    /\ timers > 0
    /\ pmRunning
    /\ LET allPositions == Flatten(StrategyOrder)
           amountIn(p) == p.amountIn
           total == SumOver(allPositions, amountIn)
       IN  /\ updatePortfolioMetrics(allPositions)
           /\ totalPortfolioValue' = total
           /\ enabled' = checkDiversification(portfolioMetrics')
           /\ positions' = IF rebalanceNeeded THEN rebalancePortfolio(totalPortfolioValue')
                           ELSE positions
    /\ UNCHANGED <<riskLimits, lastCheck, isRunning, tick, parameters, scalpVars, utilVars,
                   allocations, pmRunning,
                   botRunning,
                   startPc, timers, coordState>>

\* what an operator sends with POST /strategies/:name/enable and .../disable
AllocationUpdates ==
    { <<"momentum", [enabled |-> FALSE]>>, <<"momentum", [enabled |-> TRUE]>> }

\* PortfolioManager.updateAllocation: { ...allocation, ...newAllocation }
updateAllocation(name, newAllocation) ==
    [allocations EXCEPT ![name] =
        [f \in DOMAIN @ |-> IF f \in DOMAIN newAllocation THEN newAllocation[f] ELSE @[f]]]

UpdateAllocation ==
    \E upd \in AllocationUpdates :
        /\ listening
        /\ allocations' = updateAllocation(upd[1], upd[2])
        /\ riskViolations' = << >>
        /\ emitted' = << >>
        /\ UNCHANGED <<riskVars, unitVars, utilVars,
                       pmRunning, totalPortfolioValue, botRunning,
                       startPc, timers, coordState>>

\* what a PUT /strategies/:name/allocation body holds as `allocation`
RequestAllocations == { 50, 150, 0 - 5, undefined }

\* PUT /strategies/:name/allocation: 400 when allocation < 0 || allocation > 100,
\* else updateAllocation(name, { allocation })
PutAllocation ==
    \E name \in TickUnits, allocation \in RequestAllocations :
        /\ listening
        /\ IF lessThan(allocation, 0) \/ lessThan(100, allocation)
              THEN /\ allocations' = allocations
                   /\ emitted' = <<"400">>
              ELSE /\ allocations' = updateAllocation(name, [allocation |-> allocation])
                   /\ emitted' = << >>
        /\ riskViolations' = << >>
        /\ UNCHANGED <<riskVars, unitVars, utilVars,
                       pmRunning, totalPortfolioValue, botRunning,
                       startPc, timers, coordState>>

\* PUT /risk/limits
PutRiskLimits ==
    \E newLimits \in LimitUpdates :
        /\ listening
        /\ updateRiskLimits(newLimits)
        /\ lastCheck' = NoCheck
        /\ UNCHANGED <<unitVars, utilVars, coordVars>>


\* ------------------------------------------------------------- specifications
Init ==
    /\ riskLimits = getDefaultRiskLimits
    /\ portfolioMetrics = initializePortfolioMetrics
    /\ rmPositions = << >>
    /\ maxPortfolioValue = 0
    /\ riskViolations = << >>
    /\ lastCheck = NoCheck
    /\ admittedSince = 0
    /\ enabled = [u \in Units |-> TRUE]
    /\ isRunning = [u \in Units |-> FALSE]
    /\ positions = [u \in Units |-> << >>]
    /\ tick = [u \in Units |-> Idle]
    /\ parameters = [u \in Units |->
                        IF u = "scalping" THEN scalpingParameters
                        ELSE [maxPositionSize |-> maxPositionSizeParam(u)]]
    /\ scalping = scalpingFields
    /\ clock = [hour |-> 1, executed |-> 0]
    /\ tradeHistory = << >>
    /\ UtilInit
    /\ allocations = setupDefaultAllocations
    /\ pmRunning = FALSE
    /\ totalPortfolioValue = 0
    /\ botRunning = FALSE
    /\ startPc = "none"
    /\ timers = 0
    /\ emitted = << >>
    /\ coordState = "Stopped"

\* the bot: coordinator, control surface and the units' ticks
Next ==
    \/ StartBegin
    \/ StartFinish
    \/ Stop
    \/ OperatorEmergencyStop
    \/ EmergencyCheck
    \/ MonitoringCycle
    \/ PutRiskLimits
    \/ UpdateAllocation
    \/ \E u \in TickUnits : ExecuteBegin(u)
    \/ \E u \in TickUnits : NoSignal(u)
    \/ \E u \in TickUnits : Propose(u)
    \/ \E u \in TickUnits : GatewayReturn(u)
    \/ \E u \in TickUnits : ManagePosition(u)

Spec == Init /\ [][Next]_vars

\* the risk engine alone, under any sequence of calls of its public methods
RiskNext ==
    \/ RM_UpdatePortfolioMetrics
    \/ RM_UpdateRiskLimits
    \/ RM_CheckPositionRisk
    \/ RM_GetRiskMetrics

RiskSpec == Init /\ [][RiskNext]_vars

\* the ticks of the arbitrage and momentum units, with the operator free to
\* change a unit's parameters, under the coordinator's start, stop and
\* monitoring
TradeNext ==
    \/ StartBegin
    \/ StartFinish
    \/ Stop
    \/ UpdateParameters
    \/ ArbitrageExecute
    \/ ArbitrageNoOpportunity
    \/ executeArbitrage
    \/ ArbitrageGatewayReturn
    \/ \E u \in TickUnits : ExecuteBegin(u)
    \/ \E u \in TickUnits : NoSignal(u)
    \/ \E u \in TickUnits : Propose(u)
    \/ \E u \in TickUnits : GatewayReturn(u)
    \/ \E u \in TickUnits : ManagePosition(u)
    \/ MonitoringCycle

TradeSpec == Init /\ [][TradeNext]_vars

\* the operator's control surface over the allocations, with the coordinator's
\* start, stop and monitoring
ControlNext ==
    \/ StartBegin
    \/ StartFinish
    \/ Stop
    \/ OperatorEmergencyStop
    \/ UpdateAllocation
    \/ PutAllocation
    \/ MonitoringCycle

ControlSpec == Init /\ [][ControlNext]_vars

\* the scalping unit alone, under any schedule of calls of its public methods
\* and of its timers
ScalpNext ==
    \/ ScalpInitialize
    \/ ScalpStop
    \/ ScalpUpdateParameters
    \/ \E c \in 1..MaxCalls : ScalpExecute(c)
    \/ \E c \in 1..MaxCalls : ScalpMarketData(c)
    \/ \E c \in 1..MaxCalls : ScalpGatewayReturn(c)
    \/ \E i \in 1..MaxTrades : checkQuickExit(i)
    \/ CooldownPasses
    \/ HourPasses

ScalpSpec == Init /\ [][ScalpNext]_vars

\* the monitoring system alone, under any stream of recorded trades
MonitorNext ==
    \/ recordTrade
    \/ HalfWindowPasses
    \/ EventAgesOut

MonitorSpec == Init /\ [][MonitorNext]_vars

\* the monitoring system alone, under any stream of recorded security events
SecurityNext ==
    \/ RecordSecurityEvent
    \/ EventAgesOut

SecuritySpec == Init /\ [][SecurityNext]_vars

\* the error handler alone, under any stream of errors; its clock keeps stepping
HandlerNext ==
    \/ handleError
    \/ HandlerReset
    \/ BreakerClockSteps
    \/ EventAgesOut

HandlerSpec == Init /\ [][HandlerNext]_vars /\ WF_vars(BreakerClockSteps)

\* the rate limits of the security manager alone, under any stream of requests
LimitNext ==
    \/ \E identifier \in Identifiers, limit \in Limits, windowMs \in Windows :
           CheckRateLimit(identifier, limit, windowMs)
    \/ cleanupRateLimits
    \/ LimitClockSteps

LimitSpec == Init /\ [][LimitNext]_vars


\* ------------------------------------------------------------- properties
\* what GET /portfolio reports (getPortfolioStatus)
reportedRunning == pmRunning
reportedEnabled(u) == allocations[u].enabled

\* the score getRiskMetrics returns
riskScore == calculateOverallRiskScore(riskLimits, portfolioMetrics)

IsHundred(r) == r.n = 100 * r.d

\* C1: every trade handed to the gateway was admitted by the risk engine in
\* the same tick.
C1_AdmittedBeforeGateway ==
    \A u \in TickUnits : tick[u].pc = "gateway" => tick[u].admitted

\* the hard conditions of an admission check, as C2 lists them
HardCondition(limits, metrics, amount, price) ==
    \/ amount * price > limits.maxPositionSize
    \/ metrics.totalExposure + amount * price > limits.maxTotalExposure
    \/ metrics.dailyPnL < -limits.maxDailyLoss
    \/ metrics.maxDrawdown > limits.maxDrawdown

\* C2: whenever a hard condition holds for the proposal against the current
\* limits and metrics, the check returns allowed = false with riskScore = 100.
C2_HardConditionRejects ==
    (lastCheck.called
        /\ HardCondition(riskLimits, portfolioMetrics, lastCheck.amount, lastCheck.price))
    => (~ lastCheck.result.allowed /\ IsHundred(lastCheck.result.riskScore))

\* a hard condition held although the composite score alone would have admitted
C2_Witness ==
    /\ lastCheck.called
    /\ ~ lastCheck.fault
    /\ HardCondition(riskLimits, portfolioMetrics, lastCheck.amount, lastCheck.price)
    /\ RLessInt(checkPositionRiskScore(riskLimits, portfolioMetrics, rmPositions,
                                       lastCheck.tokenIn, lastCheck.tokenOut,
                                       lastCheck.amount * lastCheck.price).score, 80)
    /\ ~ lastCheck.result.allowed

\* C3: the exposure held plus the value of the trades admitted since the
\* metrics were last updated is never above maxTotalExposure.
C3_AdmittedWithinExposure ==
    admittedSince > 0
    => portfolioMetrics.totalExposure + admittedSince <= riskLimits.maxTotalExposure

\* C4 (as amended): a check whose evaluation throws returns allowed = false,
\* riskScore = 100 and the reason 'Error calculating risk'.
C4_FailsClosed ==
    (lastCheck.called /\ lastCheck.fault)
    => /\ ~ lastCheck.result.allowed
       /\ IsHundred(lastCheck.result.riskScore)
       /\ lastCheck.result.reason = <<"Error calculating risk">>

C4_Witness == lastCheck.called /\ lastCheck.fault /\ ~ lastCheck.result.allowed

\* C4 as the specification words it: the reason is "risk evaluation error".
C4_ReasonAsSpecified ==
    (lastCheck.called /\ lastCheck.fault)
    => /\ ~ lastCheck.result.allowed
       /\ IsHundred(lastCheck.result.riskScore)
       /\ lastCheck.result.reason = <<"risk evaluation error">>

\* some position of some unit has state open
SomePositionOpen ==
    \E u \in Units : \E i \in 1..Len(positions[u]) : positions[u][i].status = "open"

\* what an emergency stop is to leave behind
Halted ==
    /\ ~ pmRunning
    /\ \A u \in Units : ~ isRunning[u]
    /\ ~ SomePositionOpen

\* C5: an emergency stop, automatic or by the operator, completes with the
\* coordinator not running, every unit stopped and no position open, and that
\* stays so under every step that is not part of a start.
C5_EmergencyStopHolds ==
    [][/\ (OperatorEmergencyStop \/ EmergencyCheck) => Halted'
       /\ (coordState = "EmergencyStopped" /\ Halted /\ ~ (StartBegin \/ StartFinish))
            => Halted']_vars

\* C6: an emergency stop invoked when the coordinator is already
\* EmergencyStopped changes no position, unit or coordinator state and emits
\* nothing, and one emergency check emits at most one notification.
C6_EmergencyStopIdempotent ==
    [][/\ (coordState = "EmergencyStopped" /\ OperatorEmergencyStop)
            => (emitted' = << >> /\ UNCHANGED <<unitVars, utilVars, coordVars>>)
       /\ EmergencyCheck => Len(emitted') <= 1]_vars

\* C8: the coordinator starts running only by a start, stops running only by
\* a stop or an emergency stop, its timer callbacks act only while it runs,
\* and once EmergencyStopped it runs again only by a start.
C8_StateMachine ==
    [][/\ (~ pmRunning /\ pmRunning') => StartBegin
       /\ (pmRunning /\ ~ pmRunning') => (Stop \/ OperatorEmergencyStop \/ EmergencyCheck)
       /\ (MonitoringCycle \/ EmergencyCheck) => pmRunning
       /\ coordState = "EmergencyStopped" => ~ pmRunning
       /\ (coordState = "EmergencyStopped" /\ coordState' # "EmergencyStopped")
            => (StartBegin /\ coordState' = "Running")
       /\ (coordState' = "Running") = pmRunning']_vars

\* an automatic emergency stop has taken the running coordinator down, and the
\* timers that stay behind find it stopped
C8_Witness ==
    /\ coordState = "EmergencyStopped"
    /\ emitted = <<"emergencyStop">>
    /\ timers > 0
    /\ ~ pmRunning
    /\ dailyLossTrigger

\* C9: a unit that is stopped starts no gateway call, whatever tick of it is
\* in flight.
C9_NoTradeAfterStop ==
    [][\A u \in TickUnits :
          (~ isRunning[u] /\ tick[u].pc # "gateway") => tick'[u].pc # "gateway"]_vars

\* C10: at the end of a monitoring cycle whose risk score is above 70, the
\* gate of every high-risk unit refuses and GET /portfolio reports it disabled.
C10_HighRiskDisabled ==
    [][(MonitoringCycle /\ RGreaterInt(riskScore', 70))
          => \A u \in Units :
                allocations'[u].riskLevel = "high"
                => (~ shouldRun(u)' /\ ~ reportedEnabled(u)')]_vars

\* C11: a tick that passes the gate while the unit's allocation is disabled
\* hands no trade to the gateway as long as the allocation stays disabled.
C11_DisabledStartsNoTrade ==
    [][\A u \in TickUnits :
          (tick[u].pc = "run" /\ tick'[u].pc = "gateway")
          => (tick[u].allocEnabled \/ allocations[u].enabled)]_vars

\* the last engine call was updatePortfolioMetrics
IsUpdate(call) == "snapshot" \in DOMAIN call

\* the input amounts of the open positions of a snapshot, summed
OpenExposure(snapshot) ==
    LET openAmount(p) == IF p.status = "open" THEN p.amountIn ELSE 0
    IN  SumOver(snapshot, openAmount)

\* C17: after updatePortfolioMetrics(positions), totalExposure is the sum of
\* the input amounts of the supplied positions whose state is open.
C17_ExposureOfOpenPositions ==
    IsUpdate(lastCheck) => portfolioMetrics.totalExposure = OpenExposure(lastCheck.snapshot)

\* a checkPositionRisk call that ran to its end without an exception
Evaluated(call) == call.called /\ ~ call.fault

\* the score as C12 words it, for the last proposal against the current state
C12_Score ==
    LET positionValue == lastCheck.amount * lastCheck.price
        correlation == calculateCorrelationRisk(rmPositions, lastCheck.tokenIn,
                                                lastCheck.tokenOut)
        weighted ==
            RAdd(Rat(30 * positionValue, riskLimits.maxPositionSize),
            RAdd(Rat(25 * (portfolioMetrics.totalExposure + positionValue),
                     riskLimits.maxTotalExposure),
            RAdd(RAbs(Rat(20 * portfolioMetrics.dailyPnL, riskLimits.maxDailyLoss)),
            RAdd(Rat(15 * portfolioMetrics.maxDrawdown, riskLimits.maxDrawdown),
                 Rat(10 * portfolioMetrics.volatility, riskLimits.maxVolatility)))))
        penalties ==
            (IF RGreaterInt(correlation, riskLimits.maxCorrelation) THEN 20 ELSE 0)
            + (IF portfolioMetrics.liquidity < riskLimits.minLiquidity THEN 15 ELSE 0)
    IN  RAdd(weighted, RInt(penalties))

\* an empty portfolio under the default limits
EmptyPortfolio ==
    /\ rmPositions = << >>
    /\ portfolioMetrics = initializePortfolioMetrics
    /\ riskLimits = getDefaultRiskLimits

\* C12: when no hard rejection applies, the check allows exactly when the
\* weighted score with its two penalties is below 80; a proposal far below the
\* limits against an empty portfolio is allowed.
C12_AllowedBelowEighty ==
    (Evaluated(lastCheck)
        /\ ~ HardCondition(riskLimits, portfolioMetrics, lastCheck.amount, lastCheck.price))
    => /\ lastCheck.result.allowed = RLessInt(C12_Score, 80)
       /\ (EmptyPortfolio /\ lastCheck.amount * lastCheck.price <= 2)
            => lastCheck.result.allowed

\* no hard rejection applied and the score alone refused the proposal
C12_Witness ==
    /\ Evaluated(lastCheck)
    /\ ~ HardCondition(riskLimits, portfolioMetrics, lastCheck.amount, lastCheck.price)
    /\ ~ RLessInt(C12_Score, 80)
    /\ ~ lastCheck.result.allowed

\* C13: the riskScore a check returns lies within [0, 100].
C13_CheckScoreWithinRange ==
    lastCheck.called
    => /\ ~ RLessInt(lastCheck.result.riskScore, 0)
       /\ ~ RGreaterInt(lastCheck.result.riskScore, 100)

\* the last engine call was getRiskMetrics
IsRead(call) == "riskScore" \in DOMAIN call

\* C14: the riskScore getRiskMetrics returns lies within [0, 100].
C14_OverallScoreWithinRange ==
    IsRead(lastCheck)
    => /\ ~ RLessInt(lastCheck.riskScore, 0)
       /\ ~ RGreaterInt(lastCheck.riskScore, 100)

\* the daily loss is beyond its limit
DailyLossBreached == portfolioMetrics.dailyPnL < -riskLimits.maxDailyLoss

\* C15 (as amended): while the daily loss is beyond its limit every proposal
\* is denied with riskScore 100; the reason cites the daily loss limit unless
\* the proposal is above maxPositionSize or would take the exposure above
\* maxTotalExposure, which are checked first and cited instead.
C15_DailyLossDenies ==
    (Evaluated(lastCheck) /\ DailyLossBreached)
    => /\ ~ lastCheck.result.allowed
       /\ IsHundred(lastCheck.result.riskScore)
       /\ lastCheck.result.reason =
            IF lastCheck.amount * lastCheck.price > riskLimits.maxPositionSize
               THEN <<"Position size exceeds maximum">>
            ELSE IF portfolioMetrics.totalExposure + lastCheck.amount * lastCheck.price
                        > riskLimits.maxTotalExposure
               THEN <<"Total exposure would exceed maximum">>
            ELSE <<"Daily loss exceeds limit">>

\* a proposal within the size and exposure limits was denied for the daily loss
C15_Witness ==
    /\ Evaluated(lastCheck)
    /\ DailyLossBreached
    /\ lastCheck.amount * lastCheck.price <= riskLimits.maxPositionSize
    /\ lastCheck.result.reason = <<"Daily loss exceeds limit">>

\* C15 as the specification words it: whatever the amount and the price, the
\* reason cites the daily loss limit.
C15_AlwaysCitesDailyLoss ==
    (Evaluated(lastCheck) /\ DailyLossBreached)
    => /\ ~ lastCheck.result.allowed
       /\ lastCheck.result.reason = <<"Daily loss exceeds limit">>

\* C16: checkPositionRisk and getRiskMetrics leave the limits, the metrics, the
\* stored positions and the high-water mark as they were, whatever they return.
C16_ReadsChangeNothing ==
    [][(RM_CheckPositionRisk \/ RM_GetRiskMetrics)
          => UNCHANGED <<riskLimits, portfolioMetrics, rmPositions, maxPortfolioValue>>]_vars

\* a proposal was admitted against a portfolio that holds positions
C16_Witness ==
    /\ lastCheck.called
    /\ lastCheck.result.allowed
    /\ rmPositions # << >>
    /\ portfolioMetrics.totalExposure > 0

\* C19: updatePortfolioMetrics called again with the snapshot of the call
\* before it leaves every field of the metrics as that call left them.
C19_UpdateIdempotent ==
    [][(RM_UpdatePortfolioMetrics /\ IsUpdate(lastCheck)
            /\ lastCheck'.snapshot = lastCheck.snapshot)
          => portfolioMetrics' = portfolioMetrics]_vars

\* the limits C20 names that the metrics breach
C20_Breached ==
    { name \in {"Total exposure limit exceeded", "Daily loss limit exceeded",
                 "Drawdown limit exceeded"} :
        \/ name = "Total exposure limit exceeded"
              /\ portfolioMetrics.totalExposure > riskLimits.maxTotalExposure
        \/ name = "Daily loss limit exceeded"
              /\ portfolioMetrics.dailyPnL < -riskLimits.maxDailyLoss
        \/ name = "Drawdown limit exceeded"
              /\ portfolioMetrics.maxDrawdown > riskLimits.maxDrawdown }

HoldsPositionFor(ps, trade) ==
    \E i \in 1..Len(ps) :
        /\ ps[i].tokenIn = trade.tokenIn
        /\ ps[i].tokenOut = trade.tokenOut
        /\ ps[i].amountIn = trade.amount

\* C18: when the gateway reports a unit's trade successful, the unit's
\* positions contain a position for that trade from then on.
C18_SuccessLeavesPosition ==
    [][\A u \in Units :
          (tick[u].pc = "gateway" /\ emitted' = <<"tradeExecuted">>)
          => HoldsPositionFor(positions'[u], tick[u])]_vars

\* the limits that are amounts and the limits that are fractions
AmountLimits == {"maxTotalExposure", "maxPositionSize", "maxDailyLoss", "maxLeverage",
                 "minLiquidity"}

FractionLimits == {"maxDrawdown", "maxCorrelation", "maxVolatility"}

\* every amount of the record is above 0 and every fraction within [0, 1]
ValidLimits(limits) ==
    \A f \in DOMAIN limits :
        /\ f \in AmountLimits => limits[f] > 0
        /\ f \in FractionLimits => (limits[f] >= 0 /\ limits[f] <= 100)

\* C21: every limit of the engine is within its valid range: amounts are
\* above 0, and maxDrawdown, maxCorrelation and maxVolatility lie in [0, 1].
C21_LimitsWithinRange == ValidLimits(riskLimits)

\* the last engine call was updateRiskLimits
IsLimitsUpdate(call) == "newLimits" \in DOMAIN call

\* the limits with exactly the fields of a partial update replaced
MergedLimits(limits, partial) ==
    [f \in DOMAIN limits |-> IF f \in DOMAIN partial THEN partial[f] ELSE limits[f]]

\* C22: after updateRiskLimits with a valid partial update the limits are the
\* previous limits with exactly the provided fields replaced, and the metrics,
\* the stored positions and the high-water mark are as they were.
C22_UpdateMergesLimits ==
    [][(RM_UpdateRiskLimits /\ ValidLimits(lastCheck'.newLimits))
          => /\ riskLimits' = MergedLimits(riskLimits, lastCheck'.newLimits)
             /\ UNCHANGED <<portfolioMetrics, rmPositions, maxPortfolioValue>>]_vars

\* a valid update was merged into limits that differ from the defaults in a
\* field it does not provide, with positions and metrics in the engine
C22_Witness ==
    /\ IsLimitsUpdate(lastCheck)
    /\ ValidLimits(lastCheck.newLimits)
    /\ riskLimits.maxTotalExposure # getDefaultRiskLimits.maxTotalExposure
    /\ riskLimits.maxDailyLoss = lastCheck.newLimits.maxDailyLoss
    /\ rmPositions # << >>

\* C23: the allocation percentage of every StrategyAllocation is a number
\* within [0, 100].
C23_AllocationWithinRange ==
    \A u \in Units :
        /\ allocations[u].allocation # undefined
        /\ allocations[u].allocation >= 0
        /\ allocations[u].allocation <= 100

\* C27: a position whose amountOut is 0 has state open, and a position that
\* is closed or stopped keeps its amountOut and its state under every step.
C27_ClosedPositionsFixed ==
    [][\A u \in Units : \A i \in 1..Len(positions'[u]) :
          /\ positions'[u][i].amountOut = 0 => positions'[u][i].status = "open"
          /\ (i <= Len(positions[u]) /\ positions[u][i].status # "open")
                => /\ positions'[u][i].amountOut = positions[u][i].amountOut
                   /\ positions'[u][i].status = positions[u][i].status]_vars

\* C28: every trade handed to the gateway has passed the fee validation
\* (net profit after all costs at least the GALA fee) in the same tick.
C28_FeeValidatedBeforeGateway ==
    \A u \in TickUnits : tick[u].pc = "gateway" => tick[u].feeValidated

\* what an engine fresh from construction holds after updatePortfolioMetrics
\* with the snapshot
FreshMetrics(snapshot) ==
    updatePortfolioMetricsResult(initializePortfolioMetrics, 0, snapshot)

NoClosedPosition(snapshot) ==
    \A i \in 1..Len(snapshot) : snapshot[i].status # "closed"

\* C30: after updatePortfolioMetrics(positions) every field of the metrics is
\* what an engine with no earlier history computes from the same snapshot (the
\* correlation matrix, which C19 is about, left aside); a snapshot without
\* closed positions gives winRate = averageWin = averageLoss = 0.
C30_SnapshotDeterminesMetrics ==
    IsUpdate(lastCheck)
    => /\ \A f \in DOMAIN portfolioMetrics \ {"correlationMatrix"} :
             portfolioMetrics[f] = FreshMetrics(lastCheck.snapshot)[f]
       /\ NoClosedPosition(lastCheck.snapshot)
             => /\ portfolioMetrics.winRate = RInt(0)
                /\ portfolioMetrics.averageWin = RInt(0)
                /\ portfolioMetrics.averageLoss = RInt(0)

GatewayUnits == {"arbitrage", "momentum"}

C26_OneEventPerCrossing ==
    [][recordTrade
          => ((\E i \in 1..Len(emitted') : emitted'[i] = "high")
                 <=> (/\ Len(tradeHistory) <= unusualTradeCount
                      /\ Len(tradeHistory') > unusualTradeCount))]_vars

\* C29: the scalping unit executes at most maxTradesPerHour trades within one
\* clock hour.
C29_HourlyCapHolds == clock.executed <= parameters["scalping"].maxTradesPerHour

\* the total value of a snapshot, as PortfolioManager.calculatePortfolioMetrics
\* takes it: the sum of its positions' amountIn
SnapshotValue(snapshot) ==
    LET amountIn(p) == p.amountIn IN SumOver(snapshot, amountIn)

\* C31: an update of the metrics never lowers the high-water mark, leaves it
\* at least at the total value of the snapshot supplied, and leaves the
\* drawdown metric positive when that value is below the value of the
\* snapshot supplied before.
C31_DrawdownTracksPeak ==
    [][(RM_UpdatePortfolioMetrics /\ IsUpdate(lastCheck))
          => /\ maxPortfolioValue' >= maxPortfolioValue
             /\ maxPortfolioValue' >= SnapshotValue(lastCheck'.snapshot)
             /\ (SnapshotValue(lastCheck'.snapshot) < SnapshotValue(lastCheck.snapshot)
                    => portfolioMetrics'.maxDrawdown > 0)]_vars

\* the open positions of a snapshot that share a token with the proposal
SharingOpen(snapshot, tokenIn, tokenOut) ==
    { i \in 1..Len(snapshot) :
        /\ snapshot[i].status = "open"
        /\ {snapshot[i].tokenIn, snapshot[i].tokenOut} \cap {tokenIn, tokenOut} # {} }

OpenIn(snapshot) == { i \in 1..Len(snapshot) : snapshot[i].status = "open" }

\* C32: an admission check that reaches the score, made on the snapshot just
\* supplied, adds the correlation reason exactly when the open positions
\* sharing a token with the proposal are more than maxCorrelation of the open
\* positions.
C32_CorrelationByOpenPositions ==
    [][(RM_CheckPositionRisk /\ IsUpdate(lastCheck) /\ ~ lastCheck'.fault
          /\ ~ HardCondition(riskLimits, portfolioMetrics, lastCheck'.amount, lastCheck'.price))
          => LET snapshot == lastCheck.snapshot
                 sharing == Cardinality(SharingOpen(snapshot, lastCheck'.tokenIn,
                                                    lastCheck'.tokenOut))
                 open == Cardinality(OpenIn(snapshot))
             IN  (\E i \in 1..Len(lastCheck'.result.reason) :
                      lastCheck'.result.reason[i] = "High correlation risk")
                 <=> (open > 0 /\ sharing * 100 > riskLimits.maxCorrelation * open)]_vars

\* the coordinator's rebalancing of a momentum unit that has traded for a while:
\* the bot is running after one start(), and the unit holds a book of 9, 10 or
\* 20 positions of which the oldest two may have been stopped or closed
BookLengths == { 9, 10, 20 }

PositionBooks ==
    { [i \in 1..n |-> Pos(0, 1, 3, 0, IF i = 1 THEN first ELSE IF i = 2 THEN second
                                                            ELSE "open", TRUE)] :
        n \in BookLengths, first \in {"open", "stopped", "closed"},
        second \in {"open", "stopped"} }

RebalanceInit ==
    /\ riskLimits = getDefaultRiskLimits
    /\ portfolioMetrics = initializePortfolioMetrics
    /\ rmPositions = << >>
    /\ maxPortfolioValue = 0
    /\ riskViolations = << >>
    /\ lastCheck = NoCheck
    /\ admittedSince = 0
    /\ enabled = [u \in Units |-> TRUE]
    /\ isRunning = [u \in Units |-> setupDefaultAllocations[u].enabled]
    /\ \E book \in PositionBooks :
          positions = [u \in Units |-> IF u = "momentum" THEN book ELSE << >>]
    /\ tick = [u \in Units |-> Idle]
    /\ parameters = [u \in Units |->
                        IF u = "scalping" THEN scalpingParameters
                        ELSE [maxPositionSize |-> maxPositionSizeParam(u)]]
    /\ scalping = scalpingFields
    /\ clock = [hour |-> 1, executed |-> 0]
    /\ tradeHistory = << >>
    /\ UtilInit
    /\ allocations = setupDefaultAllocations
    /\ pmRunning = TRUE
    /\ totalPortfolioValue = 0
    /\ botRunning = TRUE
    /\ startPc = "none"
    /\ timers = 1
    /\ emitted = << >>
    /\ coordState = "Running"

RebalanceNext ==
    \/ PutAllocation
    \/ UpdateAllocation
    \/ MonitoringCycle

RebalanceSpec == RebalanceInit /\ [][RebalanceNext]_vars

\* the unit's exposure exceeds 110% of its allocation's share of the total
\* value of all positions
ExceedsTarget(u) ==
    /\ allocations[u].enabled
    /\ allocations[u].allocation # undefined
    /\ SnapshotValue(positions[u]) * 1000
          > SnapshotValue(Flatten(StrategyOrder)) * allocations[u].allocation * 11

\* the oldest tenth, rounded down, of the unit's open positions
OldestTenthOpen(u) ==
    LET open == { i \in 1..Len(positions[u]) : positions[u][i].status = "open" }
    IN  { i \in open : Cardinality({ j \in open : j < i }) < Cardinality(open) \div 10 }

\* C33: a monitoring cycle that rebalances closes, of every unit above its
\* target, exactly the oldest tenth of its open positions, and changes no
\* other position: none of another unit, none already closed or stopped.
C33_RebalanceClosesOldestOpen ==
    [][(MonitoringCycle /\ rebalanceNeeded)
          => \A u \in Units :
                /\ Len(positions'[u]) = Len(positions[u])
                /\ \A i \in 1..Len(positions[u]) :
                      IF ExceedsTarget(u) /\ i \in OldestTenthOpen(u)
                         THEN positions'[u][i] = [positions[u][i] EXCEPT !.status = "closed"]
                         ELSE positions'[u][i] = positions[u][i]]_vars

\* the running coordinator with the momentum unit's ticks and the operators'
\* allocation updates, nobody stopping it: setInterval calls the monitoring
\* cycle again and again for as long as the process lives
DriftNext ==
    \/ StartBegin
    \/ StartFinish
    \/ PutAllocation
    \/ UpdateAllocation
    \/ MonitoringCycle
    \/ \E u \in TickUnits : ExecuteBegin(u)
    \/ \E u \in TickUnits : NoSignal(u)
    \/ \E u \in TickUnits : Propose(u)
    \/ \E u \in TickUnits : GatewayReturn(u)
    \/ \E u \in TickUnits : ManagePosition(u)

DriftSpec == Init /\ [][DriftNext]_vars /\ WF_vars(MonitoringCycle)

\* C34: once the operators change the allocations no more, and while the
\* monitoring cycles go on, the cycles do not find the enabled allocations off
\* 100 by more than the threshold for ever: again and again they are within it.
C34_DriftEventuallyCorrected ==
    ((<>[][UNCHANGED allocations]_vars) /\ ([]<><<MonitoringCycle>>_vars))
    => []<>(~ rebalanceNeeded)

\* C35: an automatic emergency stop leaves the control surface's running flag
\* and the coordinator's running flag in agreement, so that the operator's
\* POST /portfolio/start is not refused as "already running".
C35_RunningFlagsAgree ==
    [][EmergencyCheck => (botRunning' <=> pmRunning')]_vars

\* every position of every unit is open
AllPositionsOpen ==
    \A u \in Units : \A i \in 1..Len(positions[u]) : positions[u][i].status = "open"

\* C36: the emergency check does not trigger an emergency stop while every
\* position of every unit is open and the drawdown metric is 0.
C36_NoStopWithoutLoss ==
    [][EmergencyCheck => ~ (AllPositionsOpen /\ portfolioMetrics.maxDrawdown = 0)]_vars

\* C37: at most one monitoring timer and one emergency-check timer exist, so
\* that each cycle body runs at most once per interval.
C37_OneTimerPair == timers <= 1

\* C38: every recordSecurityEvent call returns to its caller, and has then
\* recorded the event it was given and at most one critical authorization
\* event that its threat check produced
C38_RecordingTerminates ==
    [][RecordSecurityEvent
          => /\ thrown' = "none"
             /\ Len(securityEventHistory') <= Len(securityEventHistory) + 2]_vars

\* the threshold a recovery action stands for
ThresholdOf(recoveryActions) ==
    IF recoveryActions[1].threshold = 0 THEN CIRCUIT_BREAKER_THRESHOLD
    ELSE recoveryActions[1].threshold

\* the step is a handleError call for the error key k
HandlesErrorOf(k) == handleError /\ errorCounts'[k] # errorCounts[k]

\* what a handleError call for k does to the circuit breaker of k: it opens
\* the breaker only with threshold failures counted, is rejected while the
\* breaker is open and its timeout has not elapsed, and finds the breaker
\* half-open once the timeout has elapsed
BreakerStep(k) ==
    LET before == circuitBreakers[k]
        after == circuitBreakers'[k]
        blocked == before.state = "open" /\ before.age <= CIRCUIT_BREAKER_TIMEOUT
    IN  /\ (before.state # "open" /\ after.state = "open")
              => \E recoveryActions \in RecoveryActions \ { << >> } :
                     after.failures >= ThresholdOf(recoveryActions)
        /\ blocked => (thrown' = "Circuit breaker is open" /\ after = before)
        /\ (before.state = "open" /\ ~ blocked)
              => /\ thrown' # "Circuit breaker is open"
                 /\ after.state \in { "half-open", "open" }
                 /\ after.state = "open" => after.age = 0

\* the circuit breaker of k is closed and has no failure counted
ClosedAndReset(k) ==
    circuitBreakers[k].state = "closed" /\ circuitBreakers[k].failures = 0

\* the safety part of C39, on its own
BreakerSteps == [][\A k \in ErrorKeys : HandlesErrorOf(k) => BreakerStep(k)]_vars

\* C39: a circuit breaker opens only after threshold failures for its error
\* key, rejects handleError calls for that key while it is open and its
\* timeout has not elapsed, is half-open once the timeout has elapsed, and
\* does not stay half-open when no further failure for its key occurs (the
\* handler still handling errors of other keys): it returns to closed with
\* its failure count reset
C39_BreakerOpensAndCloses ==
    /\ BreakerSteps
    /\ \A k \in ErrorKeys :
           ((<>[][errorCounts'[k] = errorCounts[k]]_vars) /\ ([]<><<handleError>>_vars))
               => <>[](circuitBreakers[k].state = "half-open" => ClosedAndReset(k))

\* what a checkRateLimit(identifier, limit, windowMs) call does: count is the
\* number of calls allowed in the window of the identifier since the call
\* that opened it
RateLimitStep(identifier, limit, windowMs) ==
    LET before == rateLimitMap[identifier]
        after == rateLimitMap'[identifier]
        allowed == thrown' = "none"
        inWindow == before.present /\ before.remaining >= 0
    IN  /\ allowed => after.count <= limit
        /\ (inWindow /\ before.count >= limit) => (~ allowed /\ after = before)
        /\ ~ inWindow => (after.count = 1 /\ after.remaining = windowMs)
        /\ \A other \in Identifiers \ { identifier } :
               rateLimitMap'[other] = rateLimitMap[other]

\* C40: checkRateLimit allows at most limit calls within one window of an
\* identifier, the call that opens the window included, refuses every further
\* call in the window, opens a new window at the first call after resetTime,
\* and leaves the counters of the other identifiers alone
C40_AtMostLimitPerWindow ==
    [][\A identifier \in Identifiers, limit \in Limits, windowMs \in Windows :
          CheckRateLimit(identifier, limit, windowMs)
              => RateLimitStep(identifier, limit, windowMs)]_vars

\* the same for the limits that allow at least one call
RateLimitStepsPositive ==
    [][\A identifier \in Identifiers, limit \in Limits \ { 0 }, windowMs \in Windows :
          CheckRateLimit(identifier, limit, windowMs)
              => RateLimitStep(identifier, limit, windowMs)]_vars

====
